---- MODULE Spec2Model ----
(***************************************************************************)
(* The agent's refreshable information cache                               *)
(* (src/control/cmd/daos_agent/infocache.go): the InfoCache facade, the    *)
(* cachedAttachInfo and cachedFabricInfo entries, and the keyed ItemCache  *)
(* they are stored in.                                                     *)
(*                                                                         *)
(* Worker threads (Procs) issue facade calls.  A call is cut into steps at *)
(* the points where the code can suspend: waiting for the single-flight    *)
(* factory of a key, waiting for an entry's lock, and the collaborator     *)
(* calls (remote attach-info fetch, fabric scan, readiness wait).          *)
(*                                                                         *)
(* Go slices and pointers are modelled by an explicit heap: a response     *)
(* struct holds references to its arrays, and the rank list is an array of *)
(* references to rank objects, so that what copyGetAttachInfoResp shares   *)
(* and what it copies is computed, not assumed.                            *)
(***************************************************************************)
EXTENDS Integers, Sequences, FiniteSets, TLC

VARIABLES
    now,                      \* wall clock, time.Now()
    attachInfoCacheDisabled,  \* InfoCache.attachInfoCacheDisabled (atm.Bool)
    fabricCacheDisabled,      \* InfoCache.fabricCacheDisabled (atm.Bool)
    clientTelemetryEnabled,   \* InfoCache.clientTelemetryEnabled
    clientTelemetryRetain,    \* InfoCache.clientTelemetryRetain
    attachInfoRefresh,        \* InfoCache.attachInfoRefresh
    providers,                \* InfoCache.providers (nil: the empty set)
    items,                    \* ItemCache: key -> entry id (0: not tracked)
    entries,                  \* entry objects, by id
    flight,                   \* ItemCache: key -> thread running the factory
    th,                       \* per-thread call state
    heap,                     \* arrays and rank objects, by address (1..Len)
    last,                     \* history: the call that returned last
    factoryCalls,             \* history: createItem invocations per key that
                              \* did not fail
    created                   \* history: entries built by createItem per key

vars == <<now, attachInfoCacheDisabled, fabricCacheDisabled,
          clientTelemetryEnabled, clientTelemetryRetain, providers,
          attachInfoRefresh, items, entries, flight, th, heap, last,
          factoryCalls, created>>

----------------------------------------------------------------------------
(* Bounds *)

\* The clock runs from 1 (never the zero time) to MaxTime.
MaxTime == 3

\* Worker threads.
ProcSeq == <<"p1", "p2">>
Procs == {ProcSeq[i] : i \in DOMAIN ProcSeq}

\* System names a caller may ask for ("" asks for the default system).
Systems == {"", "daos_server", "sysA"}

\* Refresh intervals a configuration may set (0: never stale).
Intervals == {0, 1}

\* A caller appends to an environment-variable list shorter than this.
MaxEnvVars == 2

\* EnableStaticFabricCache is called while the cache has built fewer
\* entries than this.
MaxEntries == 2

----------------------------------------------------------------------------
(* Constants of the program *)

attachInfoKey == "GetAttachInfo"
fabricKey == "NUMAFabric"
DefaultSystemName == "daos_server"
ClientMetricsEnabledEnv == "D_CLIENT_METRICS_ENABLE"
ClientMetricsRetainEnv == "D_CLIENT_METRICS_RETAIN"

\* time.Time{}: the zero time, which the clock never shows.
ZeroTime == 0

NoEntry == 0
NoThread == "none"
NilResp == [nil |-> TRUE]
NilRef == 0

----------------------------------------------------------------------------
(* Strings and errors *)

\* errors.Wrap(err, msg)
Wrap(err, msg) == msg \o ": " \o err

\* strings.HasPrefix(s, prefix)
HasPrefix(s, prefix) ==
    /\ Len(s) >= Len(prefix)
    /\ SubSeq(s, 1, Len(prefix)) = prefix

sysAttachInfoKey(sys) == attachInfoKey \o "-" \o sys

\* Every key the facade can store an entry under.
AllKeys == {sysAttachInfoKey(s) : s \in Systems} \cup {fabricKey}

----------------------------------------------------------------------------
(* The heap *)

\* A cell is an array of values, an array of pointers, a rank object or a
\* NUMAFabric: its map from NUMA node to interfaces, the threads that hold
\* its read lock and the thread that holds its write lock.  While the write
\* lock is held, pending are the nodes the holder's loop over the map has
\* still to visit.  scanned is history: the map the object was made with.
Vals(s) == [k |-> "vals", v |-> s]
Ptrs(s) == [k |-> "ptrs", v |-> s]
Obj(o) == [k |-> "obj", v |-> o]
Fab(m) ==
    [k |-> "fab",
     v |-> [numaMap |-> m, readers |-> {}, writer |-> NoThread,
            pending |-> {}, scanned |-> m]]

Range(s) == {s[i] : i \in DOMAIN s}

\* n fresh addresses, what new and make return: the heap is a sequence of
\* cells and grows at its end.
Fresh(h, n) == [i \in 1..n |-> Len(h) + i]

\* The value of a slice: its elements, or <<>> for a nil slice.
Elems(h, ref) == IF ref = NilRef THEN <<>> ELSE h[ref].v

\* The value of a slice of pointers: the objects pointed to.
Objs(h, ref) == [i \in DOMAIN Elems(h, ref) |-> h[Elems(h, ref)[i]].v]

\* What a reader of response r sees, all references followed.
View(h, r) ==
    IF r = NilResp THEN NilResp
    ELSE [Sys |-> r.Sys,
          Provider |-> r.Provider,
          EnvVars |-> Elems(h, r.EnvVars),
          MSRanks |-> Elems(h, r.MSRanks),
          ServiceRanks |-> Objs(h, r.ServiceRanks),
          SecondaryRanks |-> Objs(h, r.SecondaryRanks)]

\* The addresses response r reaches in h, in a fixed order of traversal.
Reach(h, r) ==
    IF r = NilResp THEN <<>>
    ELSE SelectSeq(<<r.EnvVars, r.MSRanks, r.ServiceRanks>>
                   \o Elems(h, r.ServiceRanks)
                   \o <<r.SecondaryRanks>>
                   \o Elems(h, r.SecondaryRanks),
                   LAMBDA a : a # NilRef)

RECURSIVE Flatten(_)
Flatten(ss) == IF ss = <<>> THEN <<>> ELSE Head(ss) \o Flatten(Tail(ss))

RECURSIVE Dedup(_, _)
\* s without the elements of seen and without repetitions.
Dedup(s, seen) ==
    IF s = <<>> THEN <<>>
    ELSE IF Head(s) \in seen THEN Dedup(Tail(s), seen)
    ELSE <<Head(s)>> \o Dedup(Tail(s), seen \cup {Head(s)})

\* The responses the program holds: the entries' cached ones, then the ones
\* the threads were handed.
Roots(ents, ths) ==
    [i \in DOMAIN ents |-> ents[i].lastResponse]
    \o [i \in DOMAIN ProcSeq |-> ths[ProcSeq[i]].resp]

\* The NUMAFabric objects the program holds, likewise: the entries' cached
\* ones and the ones their fetch functions return, the ones the threads
\* were handed and the ones their calls work on.
FabRoots(ents, ths) ==
    SelectSeq([i \in DOMAIN ents |-> ents[i].lastResults]
              \o [i \in DOMAIN ents |-> ents[i].fetch]
              \o [i \in DOMAIN ProcSeq |-> ths[ProcSeq[i]].nf]
              \o [i \in DOMAIN ProcSeq |-> ths[ProcSeq[i]].results],
              LAMBDA a : a # NilRef)

\* The live cells of h, each once, in the order the roots reach them.
LiveOrder(h, roots, fabs) ==
    Dedup(Flatten([i \in DOMAIN roots |-> Reach(h, roots[i])]) \o fabs, {})

\* The place of address a in ord (addresses are names, nothing more: cells
\* are renamed by their place among the live cells, which leaves every
\* reader's view and all sharing as they were).
Place(ord, a) ==
    IF a = NilRef THEN NilRef ELSE CHOOSE i \in DOMAIN ord : ord[i] = a

MoveResp(ord, r) ==
    IF r = NilResp THEN NilResp
    ELSE [r EXCEPT !.EnvVars = Place(ord, @), !.MSRanks = Place(ord, @),
                   !.ServiceRanks = Place(ord, @),
                   !.SecondaryRanks = Place(ord, @)]

MoveCell(ord, c) ==
    IF c.k = "ptrs" THEN Ptrs([i \in DOMAIN c.v |-> Place(ord, c.v[i])]) ELSE c

\* The step ends with heap h, entries ents and threads ths: the garbage
\* collector drops the cells nothing refers to any more.
Commit(h, ents, ths) ==
    IF /\ h = heap
       /\ Roots(ents, ths) = Roots(entries, th)
       /\ FabRoots(ents, ths) = FabRoots(entries, th)
    THEN /\ heap' = h
         /\ entries' = ents
         /\ th' = ths
    ELSE \E ord \in {LiveOrder(h, Roots(ents, ths), FabRoots(ents, ths))} :
             /\ heap' = [i \in DOMAIN ord |-> MoveCell(ord, h[ord[i]])]
             /\ entries' = [i \in DOMAIN ents |->
                              [ents[i] EXCEPT !.lastResponse = MoveResp(ord, @),
                                              !.lastResults = Place(ord, @),
                                              !.fetch = Place(ord, @)]]
             /\ th' = [t \in Procs |->
                         [ths[t] EXCEPT !.resp = MoveResp(ord, @),
                                        !.nf = Place(ord, @),
                                        !.results = Place(ord, @)]]

----------------------------------------------------------------------------
(* The management service's answers *)

\* What the remote fetcher can come back with: a failure, or one of the
\* answers below.  "N" is an answer without a primary provider.
Templates == {"A", "B", "N"}
Outcomes == {"err"} \cup Templates

RpcError == "rpc failed"

\* The system a request names on the wire (an empty name means the default).
WireSystem(sys) == IF sys = "" THEN DefaultSystemName ELSE sys

\* The content of answer tmpl to a request for system sys.
ServerResp(tmpl, sys) ==
    [Sys |-> WireSystem(sys),
     Provider |-> CASE tmpl = "A" -> "ofi+tcp"
                    [] tmpl = "B" -> "ofi+verbs"
                    [] OTHER -> "",
     EnvVars |-> IF tmpl = "B" THEN <<"FI_X=1">> ELSE <<>>,
     MSRanks |-> <<0>>,
     ServiceRanks |-> <<[Rank |-> 0,
                         Uri |-> IF tmpl = "B" THEN "uri-b" ELSE "uri-a"]>>,
     SecondaryRanks |-> <<[Rank |-> 0, Uri |-> "uri-2"]>>]

\* The answer as the fetcher hands it over: a fresh struct with fresh arrays
\* and rank objects.  An empty repeated field decodes to a nil slice.
NewResp(h, tmpl, sys) ==
    LET v == ServerResp(tmpl, sys)
        a == Fresh(h, 6)
    IN  [heap |-> h \o <<Vals(v.EnvVars), Vals(v.MSRanks), Ptrs(<<a[4]>>),
                         Obj(v.ServiceRanks[1]), Ptrs(<<a[6]>>),
                         Obj(v.SecondaryRanks[1])>>,
         resp |-> [Sys |-> v.Sys, Provider |-> v.Provider,
                   EnvVars |-> IF v.EnvVars = <<>> THEN NilRef ELSE a[1],
                   MSRanks |-> a[2], ServiceRanks |-> a[3],
                   SecondaryRanks |-> a[5]]]

\* append(s, x) on a slice nobody else holds: a slice over a fresh array.
Append1(h, ref, x) ==
    [heap |-> Append(h, Vals(Append(Elems(h, ref), x))), ref |-> Len(h) + 1]

addTelemetrySettings(h, resp, enabled, retain) ==
    IF resp = NilResp \/ ~enabled THEN [heap |-> h, resp |-> resp]
    ELSE LET e1 == Append1(h, resp.EnvVars, ClientMetricsEnabledEnv \o "=1")
             e2 == IF retain
                   THEN Append1(e1.heap, e1.ref, ClientMetricsRetainEnv \o "=1")
                   ELSE e1
         IN  [heap |-> e2.heap, resp |-> [resp EXCEPT !.EnvVars = e2.ref]]

\* InfoCache.getAttachInfo: the fetcher, then the telemetry settings.
getAttachInfo(h, req, outcome, enabled, retain) ==
    IF outcome = "err" THEN [err |-> RpcError, resp |-> NilResp, heap |-> h]
    ELSE LET n == NewResp(h, outcome, req.System)
             t == addTelemetrySettings(n.heap, n.resp, enabled, retain)
         IN  [err |-> "", resp |-> t.resp, heap |-> t.heap]

\* copyGetAttachInfoResp that adds the telemetry settings to the copy.
copyGetAttachInfoRespAugmented(h, orig) ==
    IF orig = NilResp THEN [heap |-> h, resp |-> NilResp]
    ELSE LET a == Fresh(h, 3)
         IN  addTelemetrySettings(
                 h \o <<Vals(Elems(h, orig.MSRanks)),
                        Ptrs(Elems(h, orig.ServiceRanks)),
                        Vals(Elems(h, orig.EnvVars))>>,
                 [orig EXCEPT !.MSRanks = a[1], !.ServiceRanks = a[2],
                              !.EnvVars = IF orig.EnvVars # NilRef
                                          THEN a[3] ELSE NilRef],
                 clientTelemetryEnabled, clientTelemetryRetain)

\* copyGetAttachInfoResp that hands out the cached struct's own slices.
copyGetAttachInfoRespShallow(h, orig) == [heap |-> h, resp |-> orig]

copyGetAttachInfoResp(h, orig) ==
    IF orig = NilResp THEN [heap |-> h, resp |-> NilResp]
    ELSE LET a == Fresh(h, 3)
         IN  [heap |-> h \o <<Vals(Elems(h, orig.MSRanks)),
                              Ptrs(Elems(h, orig.ServiceRanks)),
                              Vals(Elems(h, orig.EnvVars))>>,
              resp |-> [orig EXCEPT !.MSRanks = a[1],
                                    !.ServiceRanks = a[2],
                                    !.EnvVars = IF orig.EnvVars # NilRef
                                                THEN a[3] ELSE NilRef]]

----------------------------------------------------------------------------
(* Cache entries *)

isStaleInclusive(ci, t) ==
    IF ci.refreshInterval = 0 THEN FALSE
    ELSE ci.lastCached + ci.refreshInterval <= t

\* cacheItem.isStale at clock t
isStale(ci, t) ==
    IF ci.refreshInterval = 0 THEN FALSE
    ELSE ci.lastCached + ci.refreshInterval < t

\* cacheItem.isCached
isCached(ci) == ci.lastCached # ZeroTime

\* The zero value of hardware.NetDevClass, which a cachedFabricInfo made
\* without a devClass has.
ZeroDevClass == ""

\* An entry of either kind has the fields of both; those of the other kind
\* stay empty.  The fetch function of a fabric entry is the scanner of the
\* facade (NilRef here) or a function that returns the NUMAFabric given.
newCachedAttachInfo(refreshInterval, system) ==
    [kind |-> "attach", refreshInterval |-> refreshInterval,
     lastCached |-> ZeroTime, system |-> system, lastResponse |-> NilResp,
     lock |-> NoThread, devClass |-> ZeroDevClass, providers |-> <<>>,
     lastResults |-> NilRef, fetch |-> NilRef]

newCachedFabricInfo(devClass, provs) ==
    [kind |-> "fabric", refreshInterval |-> 0,
     lastCached |-> ZeroTime, system |-> "", lastResponse |-> NilResp,
     lock |-> NoThread, devClass |-> devClass, providers |-> provs,
     lastResults |-> NilRef, fetch |-> NilRef]

\* An entry that is built without its time of caching.
staticFabricInfoUncached(nf, t) ==
    [newCachedFabricInfo(ZeroDevClass, <<>>) EXCEPT
        !.fetch = nf, !.lastResults = nf]

\* The entry EnableStaticFabricCache builds for NUMAFabric nf at clock t:
\* cached already, with a fetch function that returns nf, and with neither
\* device class nor providers.
staticFabricInfo(nf, t) ==
    [newCachedFabricInfo(ZeroDevClass, <<>>) EXCEPT
        !.lastCached = t, !.fetch = nf, !.lastResults = nf]

\* cachedAttachInfo.Key
Key(ci) ==
    IF ci.kind = "fabric" THEN fabricKey
    ELSE IF ci.system = "" THEN attachInfoKey
    ELSE sysAttachInfoKey(ci.system)

needsRefreshAlways(ci, t) == TRUE

\* A check that looks for a first fetch only, and never at the clock.
needsRefreshUncachedOnly(ci, t) == ~isCached(ci)

\* cachedAttachInfo.needsRefresh at clock t
needsRefresh(ci, t) == ~isCached(ci) \/ isStale(ci, t)

\* The request cachedAttachInfo.refresh sends.
\* A request of refresh for the default system, whatever the entry's is.
refreshReqDefault(ci) == [System |-> DefaultSystemName, AllRanks |-> TRUE]

refreshReq(ci) == [System |-> ci.system, AllRanks |-> TRUE]

refreshEager(ci, got, t) ==
    [err |-> IF got.err # ""
             THEN Wrap(got.err, "refreshing cached attach info failed")
             ELSE "",
     item |-> [ci EXCEPT !.lastResponse = got.resp, !.lastCached = t]]

\* cachedAttachInfo.refresh, once the fetch came back with got, at clock t:
\* the error it returns and the entry it leaves.
refresh(ci, got, t) ==
    IF got.err # ""
    THEN [err |-> Wrap(got.err, "refreshing cached attach info failed"),
          item |-> ci]
    ELSE [err |-> "",
          item |-> [ci EXCEPT !.lastResponse = got.resp, !.lastCached = t]]

----------------------------------------------------------------------------
(* The fabric scanner and the fabric entry *)

DevClasses == {"Ether", "Infiniband"}

\* What the fabric scanner can come back with: a failure, or one of the
\* topologies below.
Topologies == {"M1", "M2"}
ScanOutcomes == {"err"} \cup Topologies

ScanError == "scan failed"

Iface(name, class) == [Name |-> name, NetDevClass |-> class]

\* Topology tp: the interfaces of each NUMA node, in scan order.
ScanMap(tp) ==
    IF tp = "M1"
    THEN (0 :> <<Iface("eth0", "Ether"), Iface("ib0", "Infiniband")>>)
         @@ (1 :> <<Iface("ib1", "Infiniband")>>)
    ELSE (0 :> <<Iface("ib0", "Infiniband"), Iface("eth0", "Ether"),
                 Iface("eth1", "Ether")>>)

\* fabricScan: a fresh NUMAFabric, or an error.
fabricScan(h, outcome) ==
    IF outcome = "err" THEN [err |-> ScanError, nf |-> NilRef, heap |-> h]
    ELSE [err |-> "", nf |-> Len(h) + 1,
          heap |-> Append(h, Fab(ScanMap(outcome)))]

RECURSIVE FilterLoop(_, _, _)
\* A loop that steps on after it has cut an interface out.
FilterLoopSkip(fis, i, devClass) ==
    IF i >= Len(fis) THEN fis
    ELSE IF fis[i + 1].NetDevClass # devClass
    THEN FilterLoop(SubSeq(fis, 1, i) \o SubSeq(fis, i + 2, Len(fis)), i + 1,
                    devClass)
    ELSE FilterLoop(fis, i + 1, devClass)

\* The inner loop of filterDevClass over the interfaces fis of one NUMA
\* node, at index i (from 0): an interface of another class is cut out and
\* the index stays.
FilterLoop(fis, i, devClass) ==
    IF i >= Len(fis) THEN fis
    ELSE IF fis[i + 1].NetDevClass # devClass
    THEN FilterLoop(SubSeq(fis, 1, i) \o SubSeq(fis, i + 2, Len(fis)), i,
                    devClass)
    ELSE FilterLoop(fis, i + 1, devClass)

\* One round of the outer loop of filterDevClass, for NUMA node numa of map
\* m: a node left without interfaces is deleted.
filterDevClass(m, numa, devClass) ==
    LET fis == FilterLoop(m[numa], 0, devClass)
    IN  IF fis = <<>>
        THEN [n \in DOMAIN m \ {numa} |-> m[n]]
        ELSE [m EXCEPT ![numa] = fis]

\* What the fetch function of entry cfi comes back with: the NUMAFabric it
\* was built around, or what the scanner of the facade finds.
fetchFabric(cfi, h, outcome) ==
    IF cfi.fetch # NilRef
    THEN [err |-> "", nf |-> cfi.fetch, heap |-> h]
    ELSE fabricScan(h, outcome)

\* A check that finds an entry stale that was cached before clock t.
fabricRefreshIfNeededTimed(cfi, t) == ~isCached(cfi) \/ cfi.lastCached < t

\* Whether cachedFabricInfo.RefreshIfNeeded refreshes at clock t: only an
\* entry that was never cached.
fabricRefreshIfNeeded(cfi, t) == ~isCached(cfi)

----------------------------------------------------------------------------
(* Threads *)

NoReq == [none |-> TRUE]

\* A thread between calls; resp and err are what its last call returned, and
\* the caller holds on to resp until its next call.  During a call:
\*   nfetch  how many times the call invoked the remote fetcher so far
\*   req     the last request it passed to the fetcher
\*   devClass, providers   what a fabric call asked for
\*   iface   the interface name a GetFabricDevice call asked for
\*   results the NUMAFabric the call works on: the one its refresh fetched,
\*           or the one getNUMAFabric returned
\*   path    the path the call took so far
\* nf is the NUMAFabric GetNUMAFabricMap returned; the caller holds its read
\* lock until it runs the release action.  dev is the interface
\* GetFabricDevice returned.
NoDev == [none |-> TRUE]

\* No device class: waitFabricReady has not come back without an error.
NotReady == "none"

\* waitFabricReady has not listed the interfaces.
NoPlan == [listed |-> FALSE, w |-> "", need |-> <<>>, ifaces |-> <<>>]

\* A thread between calls.  Of a call under way, made tells whether it runs
\* or ran the factory of its key, ready the device class that
\* waitFabricReady found ready, ctx whether its context is still live, flag
\* the answer of an Is...Enabled query, and plan what waitFabricReady came
\* to when it listed the interfaces.
IdleTh ==
    [pc |-> "idle", op |-> "", sys |-> "", key |-> "", item |-> NoEntry,
     resp |-> NilResp, err |-> "", todo |-> <<>>, nfetch |-> 0, req |-> NoReq,
     devClass |-> ZeroDevClass, providers |-> <<>>, nf |-> NilRef,
     iface |-> "", results |-> NilRef, path |-> "", dev |-> NoDev,
     made |-> FALSE, ready |-> NotReady, ctx |-> "live", flag |-> FALSE,
     plan |-> NoPlan]

\* No call returned yet.
NoCall ==
    [op |-> "", t |-> NoThread, path |-> "", key |-> "", at |-> ZeroTime,
     seq |-> 0, sys |-> ""]

\* The call that returned last: thread t's op, the key it last worked on, the
\* clock at its return, and the path it took:
\*   GetAttachInfo  "bypass"     fetched directly, the cache being disabled
\*                  "hit"        served by a fresh entry, nothing fetched
\*                  "refreshed"  served after a refresh of the entry
\*                  "failed"     the refresh of the entry failed
\*   GetNUMAFabricMap, GetFabricDevice   likewise, and
\*                  "notfound"   the map has no interface to return
\*   Refresh        "disabled"   both caches disabled
\*                  "nothing"    no key to refresh
\*                  "forced"     every key refreshed
\*                  "failed"     the refresh of a key failed
\*   any            "nofactory"  the factory of the key failed
\* A write of a caller to the record it holds is recorded likewise, with op
\* "Write" and the field written to as its path; seq alternates from write
\* to write, so that two like writes in a row are two values.
Call(t, op, path) ==
    [op |-> op, t |-> t, path |-> path, key |-> th[t].key, at |-> now,
     seq |-> 0, sys |-> th[t].sys]

\* A thread whose call returned resp and err.
Returned(resp, err) == [IdleTh EXCEPT !.resp = resp, !.err = err]

\* A thread whose call returned NUMAFabric nf, read-locked.
ReturnedMap(nf) == [IdleTh EXCEPT !.nf = nf]

\* A thread whose call returned interface dev.
ReturnedDev(dev) == [IdleTh EXCEPT !.dev = dev]

\* The state NewInfoCache leaves, for a configuration with DisableCache as
\* given, one of the telemetry settings tel and CacheExpiration one of the
\* intervals ivals (which is not looked at when DisableCache is set).
InitWith(disableCache, tel, ivals) ==
    /\ now = 1
    /\ attachInfoCacheDisabled \in disableCache
    /\ fabricCacheDisabled = attachInfoCacheDisabled
    /\ clientTelemetryEnabled \in tel
    /\ clientTelemetryRetain \in tel
    /\ providers = {}
    /\ attachInfoRefresh \in (IF attachInfoCacheDisabled THEN {0} ELSE ivals)
    /\ items = [k \in AllKeys |-> NoEntry]
    /\ entries = <<>>
    /\ flight = [k \in AllKeys |-> NoThread]
    /\ th = [t \in Procs |-> IdleTh]
    /\ heap = <<>>
    /\ last = NoCall
    /\ factoryCalls = [k \in AllKeys |-> 0]
    /\ created = [k \in AllKeys |-> {}]

----------------------------------------------------------------------------
(* ItemCache *)

\* Lookup that does not look for a running factory call.
LookupNoFlight(key) == IF items[key] # NoEntry THEN "hit" ELSE "create"

\* Lookup that waits for a factory call that runs for whatever key.
LookupAnyFlight(key) ==
    IF items[key] # NoEntry THEN "hit"
    ELSE IF \E k \in AllKeys : flight[k] # NoThread THEN "wait"
    ELSE "create"

\* What GetOrCreate finds for key under the map lock: the tracked entry, a
\* factory call already running for the key, or nothing.
Lookup(key) ==
    IF items[key] # NoEntry THEN "hit"
    ELSE IF flight[key] # NoThread THEN "wait"
    ELSE "create"

\* ItemCache.GetOrCreate, up to the point where the caller either has the
\* tracked entry and goes for its lock, waits for the running factory call,
\* or runs the factory itself.  base is the caller's state on entry.
GetOrCreate(t, base, key) ==
    LET found == Lookup(key)
    IN  /\ Commit(heap, entries,
                  [th EXCEPT ![t] =
                     [base EXCEPT !.key = key,
                                  !.item = items[key],
                                  !.made = (found = "create"),
                                  !.pc = CASE found = "hit" -> "lock"
                                           [] found = "wait" -> "wait"
                                           [] OTHER -> "factory"]])
        /\ flight' = IF found = "create"
                     THEN [flight EXCEPT ![key] = t] ELSE flight
        /\ factoryCalls' = IF found = "create"
                           THEN [factoryCalls EXCEPT ![key] = @ + 1]
                           ELSE factoryCalls

\* A lock that is never found taken.
UnlockedAlways(id) == TRUE

\* Whether the lock of entry id is free: a caller takes it before it calls
\* the entry's RefreshIfNeeded or Refresh, and blocks while it is not.
Unlocked(id) == entries[id].lock = NoThread

\* The threads blocked on the factory call for key.
Waiters(key) == {u \in Procs : th[u].pc = "wait" /\ th[u].key = key}

\* The factory call of t, now in state base, returned entry item: the map
\* tracks it and every caller of the flight goes on with it.
FactoryOk(t, item, base) ==
    LET id == Len(entries) + 1
        key == th[t].key
    IN  /\ Commit(heap, Append(entries, item),
                  [u \in Procs |->
                     IF u = t
                     THEN [base EXCEPT !.pc = "lock", !.item = id]
                     ELSE IF u \in Waiters(key)
                     THEN [th[u] EXCEPT !.pc = "lock", !.item = id]
                     ELSE th[u]])
        /\ items' = [items EXCEPT ![key] = id]
        /\ flight' = [flight EXCEPT ![key] = NoThread]
        /\ created' = [created EXCEPT ![key] = @ \cup {id}]

----------------------------------------------------------------------------
(* InfoCache.GetAttachInfo *)

\* A request of getAttachInfoRemote that leaves the all-ranks flag unset.
remoteReqScoped(sys) == [System |-> sys, AllRanks |-> FALSE]

\* The request getAttachInfoRemote sends for system sys.
remoteReq(sys) == [System |-> sys, AllRanks |-> TRUE]

\* The system name of a request taken as it is given.
systemAsGiven(sys) == sys

\* The system GetAttachInfo goes to the cache for: the default system if none
\* is specified.
systemOrDefault(sys) == IF sys = "" THEN DefaultSystemName ELSE sys

\* The call begins.  With the attach-info cache disabled it goes to
\* getAttachInfoRemote and the fetch is under way; otherwise it enters
\* GetOrCreate with the key of the system, the default one for "".
GetAttachInfo(t, sys) ==
    /\ th[t].pc = "idle"
    /\ th[t].nf = NilRef
    /\ LET base == [IdleTh EXCEPT !.op = "GetAttachInfo", !.sys = sys]
       IN  IF attachInfoCacheDisabled
           THEN /\ Commit(heap, entries,
                          [th EXCEPT ![t] =
                             [base EXCEPT !.pc = "remote",
                                          !.nfetch = 1,
                                          !.req = remoteReq(sys)]])
                /\ UNCHANGED <<flight, factoryCalls>>
           ELSE GetOrCreate(t, base,
                    sysAttachInfoKey(systemOrDefault(sys)))
    /\ UNCHANGED <<now, attachInfoCacheDisabled, fabricCacheDisabled,
                   clientTelemetryEnabled, clientTelemetryRetain, providers,
                   attachInfoRefresh, items, last, created>>

\* getAttachInfoRemote that does not look at the provider of the response.
getAttachInfoRemoteUnchecked(got) ==
    IF got.err # ""
    THEN [err |-> Wrap(got.err, "GetAttachInfo request"), resp |-> NilResp]
    ELSE [err |-> "", resp |-> got.resp]

\* getAttachInfoRemote, once the fetch came back with got: the error and the
\* response it returns.
getAttachInfoRemote(got) ==
    IF got.err # ""
    THEN [err |-> Wrap(got.err, "GetAttachInfo request"), resp |-> NilResp]
    ELSE IF got.resp.Provider = ""
    THEN [err |-> "GetAttachInfo response contained no provider",
          resp |-> NilResp]
    ELSE [err |-> "", resp |-> got.resp]

\* The direct fetch of a call in bypass mode comes back.
RemoteDone(t, outcome) ==
    /\ th[t].pc = "remote"
    /\ \E got \in {getAttachInfo(heap, th[t].req, outcome,
                                 clientTelemetryEnabled, clientTelemetryRetain)} :
          \E ret \in {getAttachInfoRemote(got)} :
             Commit(got.heap, entries,
                    [th EXCEPT ![t] = Returned(ret.resp, ret.err)])
    /\ last' = Call(t, "GetAttachInfo", "bypass")
    /\ UNCHANGED <<now, attachInfoCacheDisabled, fabricCacheDisabled,
                   clientTelemetryEnabled, clientTelemetryRetain, providers,
                   attachInfoRefresh, items, flight, factoryCalls, created>>

\* createItem of GetAttachInfo runs: it cannot fail.
CreateAttachInfo(t) ==
    /\ th[t].pc = "factory"
    /\ th[t].op = "GetAttachInfo"
    /\ FactoryOk(t, newCachedAttachInfo(attachInfoRefresh,
                                         systemOrDefault(th[t].sys)),
                 th[t])
    /\ UNCHANGED <<now, attachInfoCacheDisabled, fabricCacheDisabled,
                   clientTelemetryEnabled, clientTelemetryRetain, providers,
                   attachInfoRefresh, last, factoryCalls>>

\* A GetAttachInfo that returns the copy with the lock of the entry held.
ReturnAttachInfoHolding(t, h, ents, id) ==
    \E cp \in {copyGetAttachInfoResp(h, ents[id].lastResponse)} :
       Commit(cp.heap, [ents EXCEPT ![id].lock = t],
              [th EXCEPT ![t] = Returned(cp.resp, "")])

\* GetAttachInfo after GetOrCreate handed it entry id of ents with the lock
\* held: it returns the copy of the cached response, made before the
\* deferred release of the lock.
ReturnAttachInfo(t, h, ents, id) ==
    \E cp \in {copyGetAttachInfoResp(h, ents[id].lastResponse)} :
       Commit(cp.heap, [ents EXCEPT ![id].lock = NoThread],
              [th EXCEPT ![t] = Returned(cp.resp, "")])

\* GetOrCreate takes the entry's lock and calls RefreshIfNeeded.  A fresh
\* entry is handed to GetAttachInfo at once; for a stale or empty one the
\* fetch of cachedAttachInfo.refresh is under way, the lock held.
LockAttachInfo(t) ==
    /\ th[t].pc = "lock"
    /\ th[t].op = "GetAttachInfo"
    /\ Unlocked(th[t].item)
    /\ LET id == th[t].item
           ci == entries[id]
       IN  IF needsRefresh(ci, now)
           THEN /\ Commit(heap, [entries EXCEPT ![id].lock = t],
                          [th EXCEPT ![t].pc = "fetch",
                                     ![t].nfetch = @ + 1,
                                     ![t].req = refreshReq(ci)])
                /\ last' = last
           ELSE /\ ReturnAttachInfo(t, heap, entries, id)
                /\ last' = Call(t, "GetAttachInfo", "hit")
    /\ UNCHANGED <<now, attachInfoCacheDisabled, fabricCacheDisabled,
                   clientTelemetryEnabled, clientTelemetryRetain, providers,
                   attachInfoRefresh, items, flight, factoryCalls, created>>

----------------------------------------------------------------------------
(* InfoCache.Refresh *)

\* The keys Keys() lists that belong to the attach-info cache.
AttachKeys == {k \in AllKeys : items[k] # NoEntry /\ HasPrefix(k, attachInfoKey)}

\* The sequences that list every element of S once.
Orders(S) ==
    {q \in [1..Cardinality(S) -> S] : \A k \in S : \E i \in DOMAIN q : q[i] = k}

AllCachesDisabled == "all caches are disabled"

\* A check that finds no cache enabled as soon as one is disabled.
someCacheDisabled(attachDisabled, fabricDisabled) ==
    attachDisabled \/ fabricDisabled

\* The check InfoCache.Refresh begins with: neither cache is enabled.
noCacheEnabled(attachDisabled, fabricDisabled) ==
    attachDisabled /\ fabricDisabled

\* Keys chosen without a look at which cache is enabled.
RefreshKeysAll(order) ==
    (IF items[fabricKey] # NoEntry THEN <<fabricKey>> ELSE <<>>) \o order

\* The keys InfoCache.Refresh hands to ItemCache.Refresh: the fabric key, if
\* the fabric cache is enabled and tracks it, and then, if the attach-info
\* cache is enabled, the attach-info keys in the order Keys() listed them.
RefreshKeys(order) ==
    (IF ~fabricCacheDisabled /\ items[fabricKey] # NoEntry
     THEN <<fabricKey>> ELSE <<>>)
    \o (IF ~attachInfoCacheDisabled THEN order ELSE <<>>)

\* InfoCache.Refresh begins: it fails when both caches are disabled, and
\* otherwise hands ItemCache.Refresh the fabric key, if enabled and tracked,
\* and the attach-info keys, if enabled, in the order Keys() listed them.
Refresh(t) ==
    /\ th[t].pc = "idle"
    /\ th[t].nf = NilRef
    /\ LET base == [IdleTh EXCEPT !.op = "Refresh"]
       IN  IF noCacheEnabled(attachInfoCacheDisabled, fabricCacheDisabled)
           THEN /\ Commit(heap, entries,
                      [th EXCEPT ![t] = Returned(NilResp, AllCachesDisabled)])
                /\ last' = Call(t, "Refresh", "disabled")
           ELSE \E order \in Orders(AttachKeys) :
                   LET keys == RefreshKeys(order)
                   IN  IF keys = <<>>
                       THEN /\ Commit(heap, entries,
                                      [th EXCEPT ![t] = Returned(NilResp, "")])
                            /\ last' = Call(t, "Refresh", "nothing")
                       ELSE /\ Commit(heap, entries,
                                      [th EXCEPT ![t] =
                                         [base EXCEPT !.todo = keys,
                                                      !.pc = "rlock"]])
                            /\ last' = last
    /\ UNCHANGED <<now, attachInfoCacheDisabled, fabricCacheDisabled,
                   clientTelemetryEnabled, clientTelemetryRetain, providers,
                   attachInfoRefresh, items, flight, factoryCalls, created>>

\* ItemCache.Refresh is done with the key at the head of its list: it
\* returns when that was the last one.
RefreshNext(t, h, ents) ==
    IF Tail(th[t].todo) = <<>>
    THEN /\ Commit(h, ents, [th EXCEPT ![t] = Returned(NilResp, "")])
         /\ last' = Call(t, "Refresh", "forced")
    ELSE /\ Commit(h, ents, [th EXCEPT ![t].todo = Tail(@),
                                       ![t].pc = "rlock",
                                       ![t].results = NilRef])
         /\ last' = last

\* ItemCache.Refresh comes to the next key: a key without an entry is passed
\* over; otherwise it takes the entry's lock and calls the entry's Refresh,
\* whose fetch or scan is then under way.
RefreshLock(t) ==
    /\ th[t].pc = "rlock"
    /\ LET key == Head(th[t].todo)
           id == items[key]
       IN  IF id = NoEntry
           THEN RefreshNext(t, heap, entries)
           ELSE /\ Unlocked(id)
                /\ Commit(heap, [entries EXCEPT ![id].lock = t],
                          [th EXCEPT ![t].pc = IF entries[id].kind = "attach"
                                               THEN "fetch" ELSE "scan",
                                     ![t].key = key,
                                     ![t].item = id,
                                     ![t].nfetch = @ + 1,
                                     ![t].req = refreshReq(entries[id])])
                /\ last' = last
    /\ UNCHANGED <<now, attachInfoCacheDisabled, fabricCacheDisabled,
                   clientTelemetryEnabled, clientTelemetryRetain, providers,
                   attachInfoRefresh, items, flight, factoryCalls, created>>

\* The fetch of cachedAttachInfo.refresh comes back.  The entry is updated or
\* left alone, its lock is released, and the caller goes on: GetAttachInfo
\* returns the copy or the error, ItemCache.Refresh stops at an error or
\* goes to its next key.
FetchDone(t, outcome) ==
    /\ th[t].pc = "fetch"
    /\ \E id \in {th[t].item} :
       \E got \in {getAttachInfo(heap, th[t].req, outcome,
                                 clientTelemetryEnabled, clientTelemetryRetain)} :
       \E r \in {refresh(entries[id], got, now)} :
       \E ents \in {[entries EXCEPT ![id] = [r.item EXCEPT !.lock = NoThread]]} :
           IF r.err # ""
           THEN /\ Commit(got.heap, ents,
                     [th EXCEPT ![t] =
                        Returned(NilResp,
                                 IF th[t].op = "GetAttachInfo"
                                 THEN Wrap(r.err, "getting attach info from cache")
                                 ELSE r.err)])
                /\ last' = Call(t, th[t].op, "failed")
           ELSE IF th[t].op = "GetAttachInfo"
           THEN /\ ReturnAttachInfo(t, got.heap, ents, id)
                /\ last' = Call(t, "GetAttachInfo", "refreshed")
           ELSE RefreshNext(t, got.heap, ents)
    /\ UNCHANGED <<now, attachInfoCacheDisabled, fabricCacheDisabled,
                   clientTelemetryEnabled, clientTelemetryRetain, providers,
                   attachInfoRefresh, items, flight, factoryCalls, created>>

----------------------------------------------------------------------------
(* InfoCache.GetNUMAFabricMap *)

\* What waitFabricReady can come back with: the fabric is ready ("ok"), or
\* the wait for it failed with the error of the context ("err").
WaitOutcomes == {"ok", "err"}

WaitError == "context deadline exceeded"

ListError == "route ip+net: netlinkrib: too many open files"

\* A round of a wait that goes on though the context is done.
WaitFabricReadyForever(ready, ctx) == IF ready THEN "ok" ELSE "wait"

\* A round of the polling loop of hardware.WaitFabricReady, with the
\* interfaces it waits for ready or not, under context ctx: it returns when
\* they are ready, fails when the context is done, and sleeps for
\* IterationSleep ("wait") otherwise.
WaitFabricReady(ready, ctx) ==
    IF ready THEN "ok" ELSE IF ctx = "done" THEN "err" ELSE "wait"

ClassError == "failed to read device class"

\* The error of waitFabricReady for outcome w, "" for none: netIfaces may
\* fail ("nolist"), and so may GetNetDevClass for one of the interfaces
\* ("noclass"), before there is anything to wait for.
waitFabricReady(w) ==
    CASE w = "ok" -> ""
      [] w = "nolist" -> Wrap(ListError, "getting net interfaces")
      [] w = "noclass" -> Wrap(ClassError, "getting device class")
      [] OTHER -> WaitError

\* The interfaces of the host: two with a class, one whose class cannot be
\* read.
LocalIfaces == {"eth0", "ib0", "bad0"}

\* devClassGetter.GetNetDevClass(name)
GetNetDevClass(name) ==
    CASE name = "eth0" -> [class |-> "Ether", err |-> ""]
      [] name = "ib0" -> [class |-> "Infiniband", err |-> ""]
      [] OTHER -> [class |-> ZeroDevClass, err |-> ClassError]

\* What netIfaces can come back with: a failure, or up to MaxIfaces of the
\* interfaces of the host in some order.
MaxIfaces == 3

LocalEnvs ==
    {[ok |-> FALSE, ifaces |-> <<>>]}
       \cup {[ok |-> TRUE, ifaces |-> q] :
               q \in {x \in UNION {[1..n -> LocalIfaces] : n \in 0..MaxIfaces} :
                        \A i, j \in DOMAIN x : i # j => x[i] # x[j]}}

\* A loop that takes every interface listed, whatever its class.
RECURSIVE needIfacesAll(_, _)
needIfacesAll(ifaces, netDevClass) ==
    IF ifaces = <<>> THEN [w |-> "ok", need |-> <<>>]
    ELSE IF GetNetDevClass(Head(ifaces)).err # ""
    THEN [w |-> "noclass", need |-> <<>>]
    ELSE LET r == needIfacesAll(Tail(ifaces), netDevClass)
         IN  IF r.w # "ok" THEN r
             ELSE [r EXCEPT !.need = <<Head(ifaces)>> \o @]

\* The loop of waitFabricReady over the interfaces listed: the names of
\* those of class netDevClass, in the order listed, or the failure of
\* GetNetDevClass for one of them.
RECURSIVE needIfaces(_, _)
needIfaces(ifaces, netDevClass) ==
    IF ifaces = <<>> THEN [w |-> "ok", need |-> <<>>]
    ELSE LET g == GetNetDevClass(Head(ifaces))
         IN  IF g.err # "" THEN [w |-> "noclass", need |-> <<>>]
             ELSE LET r == needIfaces(Tail(ifaces), netDevClass)
                  IN  IF r.w # "ok" THEN r
                      ELSE IF g.class = netDevClass
                      THEN [r EXCEPT !.need = <<Head(ifaces)>> \o @]
                      ELSE r

\* waitFabricReady up to the call of hardware.WaitFabricReady, on a host
\* where netIfaces comes back with env: the failure it returns with, or the
\* interfaces it will wait for.
waitPlan(env, netDevClass) ==
    IF ~env.ok
    THEN [listed |-> TRUE, w |-> "nolist", need |-> <<>>, ifaces |-> <<>>]
    ELSE LET r == needIfaces(env.ifaces, netDevClass)
         IN  [listed |-> TRUE, w |-> r.w, need |-> r.need,
              ifaces |-> env.ifaces]

\* The polling loop sleeps for a second.
IterationSleep == IF now < MaxTime THEN now + 1 ELSE now

\* The error GetNUMAFabricMap returns for error err of getNUMAFabric.
MapError(err) == Wrap(err, "getting the NUMA fabric")

\* The error getNUMAFabric returns for error err of GetOrCreate.
CacheError(err) == Wrap(err, "getting fabric scan from cache")

\* The calls of the facade that go through getNUMAFabric.
FabricOps == {"GetNUMAFabricMap", "GetFabricDevice"}

\* The error call op returns for error err of getNUMAFabric: GetFabricDevice
\* passes it on as it is.
FabricError(op, err) == IF op = "GetNUMAFabricMap" THEN MapError(err) ELSE err

\* A getNUMAFabric that goes to the cache whether it is enabled or not.
getNUMAFabricCached(t, base) == GetOrCreate(t, base, fabricKey)

\* A getNUMAFabric that scans at once when the fabric cache is disabled.
getNUMAFabricNoWait(t, base) ==
    IF fabricCacheDisabled
    THEN /\ Commit(heap, entries,
                   [th EXCEPT ![t] = [base EXCEPT !.pc = "bscan"]])
         /\ UNCHANGED <<flight, factoryCalls>>
    ELSE GetOrCreate(t, base, fabricKey)

\* getNUMAFabric begins, for a caller in state base.  With the fabric cache
\* disabled it waits for the fabric to be ready and will scan; otherwise it
\* enters GetOrCreate with the fabric key.
getNUMAFabric(t, base) ==
    IF fabricCacheDisabled
    THEN /\ Commit(heap, entries,
                   [th EXCEPT ![t] = [base EXCEPT !.pc = "bwait"]])
         /\ UNCHANGED <<flight, factoryCalls>>
    ELSE GetOrCreate(t, base, fabricKey)

\* GetNUMAFabricMap begins.
GetNUMAFabricMap(t, devClass) ==
    /\ th[t].pc = "idle"
    /\ th[t].nf = NilRef
    /\ getNUMAFabric(t, [IdleTh EXCEPT !.op = "GetNUMAFabricMap",
                                       !.devClass = devClass,
                                       !.providers = <<"ofi+tcp">>])
    /\ UNCHANGED <<now, attachInfoCacheDisabled, fabricCacheDisabled,
                   clientTelemetryEnabled, clientTelemetryRetain, providers,
                   attachInfoRefresh, items, last, created>>

\* GetFabricDevice begins, for the interface named iface, or for any if
\* iface is "".
GetFabricDevice(t, devClass, iface) ==
    /\ th[t].pc = "idle"
    /\ th[t].nf = NilRef
    /\ getNUMAFabric(t, [IdleTh EXCEPT !.op = "GetFabricDevice",
                                       !.devClass = devClass,
                                       !.providers = <<"ofi+tcp">>,
                                       !.iface = iface])
    /\ UNCHANGED <<now, attachInfoCacheDisabled, fabricCacheDisabled,
                   clientTelemetryEnabled, clientTelemetryRetain, providers,
                   attachInfoRefresh, items, last, created>>

\* getNUMAFabric returns NUMAFabric nf, having come by it on path; the
\* entry's lock, if it was held, is released in ents.  The caller goes on to
\* read-lock the map, or to pick a device from it.
ReturnFabric(t, h, ents, nf, path) ==
    Commit(h, ents,
           [th EXCEPT ![t].pc = IF th[t].op = "GetNUMAFabricMap"
                                THEN "rmap" ELSE "device",
                      ![t].results = nf,
                      ![t].path = path])

\* A write lock that is handed out whoever holds the map.
CanLockMapAlways(h, nf) == TRUE

\* Whether NUMAFabric.LockedMap can take the write lock of nf: nobody reads
\* and nobody writes.
CanLockMap(h, nf) == h[nf].v.readers = {} /\ h[nf].v.writer = NoThread

\* Whether NUMAFabric.RLockedMap can take the read lock of nf: nobody
\* writes.
CanRLockMap(h, nf) == h[nf].v.writer = NoThread

\* NUMAFabric.RLockedMap by thread t: the read lock is taken.
RLockedMap(h, nf, t) == [h EXCEPT ![nf].v.readers = @ \cup {t}]

\* GetNUMAFabricMap, after getNUMAFabric returned: RLockedMap gets the read
\* lock, and the call returns the map.
RLockMap(t) ==
    /\ th[t].pc = "rmap"
    /\ CanRLockMap(heap, th[t].results)
    /\ Commit(RLockedMap(heap, th[t].results, t), entries,
              [th EXCEPT ![t] = ReturnedMap(th[t].results)])
    /\ last' = Call(t, "GetNUMAFabricMap", th[t].path)
    /\ UNCHANGED <<now, attachInfoCacheDisabled, fabricCacheDisabled,
                   clientTelemetryEnabled, clientTelemetryRetain, providers,
                   attachInfoRefresh, items, flight, factoryCalls, created>>

DeviceNotFound == "fabric interface not found"

\* Every interface of map m.
AllIfaces(m) == UNION {Range(m[n]) : n \in DOMAIN m}

\* A lookup that takes any interface for the one asked for.
FindDeviceAny(m, iface) == AllIfaces(m)

\* NUMAFabric.FindDevice for the interface named iface, and
\* NUMAFabric.GetDevice if iface is "": the interfaces of m that the call
\* may return.
FindDevice(m, iface) ==
    IF iface = "" THEN AllIfaces(m)
    ELSE {fi \in AllIfaces(m) : fi.Name = iface}

\* GetFabricDevice, after getNUMAFabric returned: the map is read, under
\* its read lock, and an interface of it or an error returned.
DeviceDone(t) ==
    /\ th[t].pc = "device"
    /\ CanRLockMap(heap, th[t].results)
    /\ \E found \in {FindDevice(heap[th[t].results].v.numaMap, th[t].iface)} :
          IF found = {}
          THEN /\ Commit(heap, entries,
                         [th EXCEPT ![t] = Returned(NilResp, DeviceNotFound)])
               /\ last' = Call(t, "GetFabricDevice", "notfound")
          ELSE /\ \E fi \in found :
                     Commit(heap, entries, [th EXCEPT ![t] = ReturnedDev(fi)])
               /\ last' = Call(t, "GetFabricDevice", th[t].path)
    /\ UNCHANGED <<now, attachInfoCacheDisabled, fabricCacheDisabled,
                   clientTelemetryEnabled, clientTelemetryRetain, providers,
                   attachInfoRefresh, items, flight, factoryCalls, created>>

\* The release action of a map GetNUMAFabricMap returned.
ReleaseMap(t) ==
    /\ th[t].pc = "idle"
    /\ th[t].nf # NilRef
    /\ Commit([heap EXCEPT ![th[t].nf].v.readers = @ \ {t}], entries,
              [th EXCEPT ![t].nf = NilRef])
    /\ UNCHANGED <<now, attachInfoCacheDisabled, fabricCacheDisabled,
                   clientTelemetryEnabled, clientTelemetryRetain, providers,
                   attachInfoRefresh, items, flight, last, factoryCalls,
                   created>>

\* Bypass mode: waitFabricReady comes back.
BypassReady(t, w) ==
    /\ th[t].pc = "bwait"
    /\ IF w = "wait"
       THEN /\ now' = IterationSleep
            /\ UNCHANGED <<heap, entries, th, last>>
       ELSE IF waitFabricReady(w) # ""
       THEN /\ Commit(heap, entries,
                      [th EXCEPT ![t] =
                         Returned(NilResp,
                                  FabricError(th[t].op, waitFabricReady(w)))])
            /\ last' = Call(t, th[t].op, "bypass")
            /\ now' = now
       ELSE /\ Commit(heap, entries,
                      [th EXCEPT ![t].pc = "bscan",
                                 ![t].ready = th[t].devClass])
            /\ UNCHANGED <<now, last>>
    /\ UNCHANGED <<attachInfoCacheDisabled, fabricCacheDisabled,
                   clientTelemetryEnabled, clientTelemetryRetain, providers,
                   attachInfoRefresh, items, flight, factoryCalls, created>>

\* Bypass mode: the scan comes back, and its result is handed out as it is.
BypassScan(t, o) ==
    /\ th[t].pc = "bscan"
    /\ \E got \in {fabricScan(heap, o)} :
          IF got.err # ""
          THEN /\ Commit(heap, entries,
                         [th EXCEPT ![t] =
                            Returned(NilResp, FabricError(th[t].op, got.err))])
               /\ last' = Call(t, th[t].op, "bypass")
          ELSE /\ ReturnFabric(t, got.heap, entries, got.nf, "bypass")
               /\ last' = last
    /\ UNCHANGED <<now, attachInfoCacheDisabled, fabricCacheDisabled,
                   clientTelemetryEnabled, clientTelemetryRetain, providers,
                   attachInfoRefresh, items, flight, factoryCalls, created>>

\* A failure of the factory call that leaves an entry under the key, one
\* that was never cached.
FactoryFailPoisons(t, err) ==
    LET key == th[t].key
    IN  /\ Commit(heap, Append(entries, newCachedFabricInfo(th[t].devClass,
                                                            th[t].providers)),
                  [u \in Procs |->
                     IF u = t \/ u \in Waiters(key)
                     THEN Returned(NilResp,
                                   FabricError(th[u].op, CacheError(err)))
                     ELSE th[u]])
        /\ flight' = [flight EXCEPT ![key] = NoThread]
        /\ factoryCalls' = [factoryCalls EXCEPT ![key] = @ - 1]
        /\ last' = Call(t, th[t].op, "nofactory")
        /\ items' = [items EXCEPT ![key] = Len(entries) + 1]
        /\ UNCHANGED created

\* The factory call of t failed with err: the key stays untracked, and every
\* caller of the flight returns the error.
FactoryFail(t, err) ==
    LET key == th[t].key
    IN  /\ Commit(heap, entries,
                  [u \in Procs |->
                     IF u = t \/ u \in Waiters(key)
                     THEN Returned(NilResp,
                                   FabricError(th[u].op, CacheError(err)))
                     ELSE th[u]])
        /\ flight' = [flight EXCEPT ![key] = NoThread]
        /\ factoryCalls' = [factoryCalls EXCEPT ![key] = @ - 1]
        /\ last' = Call(t, th[t].op, "nofactory")
        /\ UNCHANGED <<items, created>>

\* createItem of getNUMAFabric runs: waitFabricReady comes back, and the
\* entry is made if the fabric is ready.
CreateFabric(t, w) ==
    /\ th[t].pc = "factory"
    /\ th[t].op \in FabricOps
    /\ IF w = "wait"
       THEN /\ now' = IterationSleep
            /\ UNCHANGED <<heap, entries, th, last, items, flight,
                           factoryCalls, created>>
       ELSE IF waitFabricReady(w) # ""
       THEN /\ FactoryFail(t, waitFabricReady(w))
            /\ now' = now
       ELSE /\ FactoryOk(t, newCachedFabricInfo(th[t].devClass,
                                                th[t].providers),
                         [th[t] EXCEPT !.ready = th[t].devClass])
            /\ UNCHANGED <<now, last, factoryCalls>>
    /\ UNCHANGED <<attachInfoCacheDisabled, fabricCacheDisabled,
                   clientTelemetryEnabled, clientTelemetryRetain, providers,
                   attachInfoRefresh>>

\* The context of the call of t, which is waiting for the fabric to be
\* ready, is cancelled, or its deadline passes.
CtxDone(t) ==
    /\ th[t].pc \in {"factory", "bwait"}
    /\ th[t].op \in FabricOps
    /\ th[t].ctx = "live"
    /\ Commit(heap, entries, [th EXCEPT ![t].ctx = "done"])
    /\ UNCHANGED <<now, attachInfoCacheDisabled, fabricCacheDisabled,
                   clientTelemetryEnabled, clientTelemetryRetain, providers,
                   attachInfoRefresh, items, flight, last, factoryCalls,
                   created>>

\* waitFabricReady of the call of t lists the interfaces of the host, which
\* come back as env, and reads their classes.
ListIfaces(t, env) ==
    /\ th[t].pc \in {"factory", "bwait"}
    /\ th[t].op \in FabricOps
    /\ ~th[t].plan.listed
    /\ Commit(heap, entries,
              [th EXCEPT ![t].plan = waitPlan(env, th[t].devClass)])
    /\ UNCHANGED <<now, attachInfoCacheDisabled, fabricCacheDisabled,
                   clientTelemetryEnabled, clientTelemetryRetain, providers,
                   attachInfoRefresh, items, flight, last, factoryCalls,
                   created>>

\* waitFabricReady of the call of t goes on from its list: it returns the
\* failure, returns at once if there is nothing to wait for, and calls
\* hardware.WaitFabricReady otherwise, which finds the interfaces ready or
\* not.
WaitListed(t, ready) ==
    /\ th[t].plan.listed
    /\ \E w \in {IF th[t].plan.w # "ok" THEN th[t].plan.w
                  ELSE IF th[t].plan.need = <<>> THEN "ok"
                  ELSE WaitFabricReady(ready, th[t].ctx)} :
          \/ CreateFabric(t, w)
          \/ BypassReady(t, w)

\* GetOrCreate takes the fabric entry's lock and calls RefreshIfNeeded: an
\* entry that is cached is handed to getNUMAFabric, which releases the lock
\* and returns its lastResults; for one that is not, the scan of
\* cachedFabricInfo.refresh is under way, the lock held.
LockFabric(t) ==
    /\ th[t].pc = "lock"
    /\ th[t].op \in FabricOps
    /\ Unlocked(th[t].item)
    /\ LET id == th[t].item
           cfi == entries[id]
       IN  IF fabricRefreshIfNeeded(cfi, now)
           THEN Commit(heap, [entries EXCEPT ![id].lock = t],
                       [th EXCEPT ![t].pc = "scan", ![t].nfetch = @ + 1])
           ELSE ReturnFabric(t, heap, entries, cfi.lastResults, "hit")
    /\ UNCHANGED <<now, attachInfoCacheDisabled, fabricCacheDisabled,
                   clientTelemetryEnabled, clientTelemetryRetain, providers,
                   attachInfoRefresh, items, flight, last, factoryCalls,
                   created>>

\* The fetch of cachedFabricInfo.refresh comes back.  On an error the entry
\* is left alone, its lock is released and the caller returns the error;
\* otherwise refresh goes on to filterDevClass with the results.
ScanDone(t, o) ==
    /\ th[t].pc = "scan"
    /\ \E id \in {th[t].item} :
       \E got \in {fetchFabric(entries[id], heap, o)} :
           IF got.err # ""
           THEN \E err \in {Wrap(got.err, "refreshing cached fabric info")} :
                /\ Commit(got.heap, [entries EXCEPT ![id].lock = NoThread],
                     [th EXCEPT ![t] =
                        Returned(NilResp,
                                 IF th[t].op \in FabricOps
                                 THEN FabricError(th[t].op, CacheError(err))
                                 ELSE err)])
                /\ last' = Call(t, th[t].op, "failed")
           ELSE /\ Commit(got.heap, entries,
                          [th EXCEPT ![t].pc = "wlock",
                                     ![t].results = got.nf])
                /\ last' = last
    /\ UNCHANGED <<now, attachInfoCacheDisabled, fabricCacheDisabled,
                   clientTelemetryEnabled, clientTelemetryRetain, providers,
                   attachInfoRefresh, items, flight, factoryCalls, created>>

\* filterDevClass takes the write lock of the results, by LockedMap, and
\* begins its loop over the map.
LockMap(t) ==
    /\ th[t].pc = "wlock"
    /\ CanLockMap(heap, th[t].results)
    /\ Commit([heap EXCEPT ![th[t].results].v.writer = t,
                           ![th[t].results].v.pending =
                               DOMAIN heap[th[t].results].v.numaMap],
              entries, [th EXCEPT ![t].pc = "filter"])
    /\ UNCHANGED <<now, attachInfoCacheDisabled, fabricCacheDisabled,
                   clientTelemetryEnabled, clientTelemetryRetain, providers,
                   attachInfoRefresh, items, flight, last, factoryCalls,
                   created>>

\* One round of the loop of filterDevClass over the map, which Go ranges
\* over in no particular order.
FilterNode(t) ==
    /\ th[t].pc = "filter"
    /\ \E numa \in heap[th[t].results].v.pending :
          Commit([heap EXCEPT ![th[t].results].v.numaMap =
                                  filterDevClass(@, numa,
                                      entries[th[t].item].devClass),
                              ![th[t].results].v.pending = @ \ {numa}],
                 entries, th)
    /\ UNCHANGED <<now, attachInfoCacheDisabled, fabricCacheDisabled,
                   clientTelemetryEnabled, clientTelemetryRetain, providers,
                   attachInfoRefresh, items, flight, last, factoryCalls,
                   created>>

\* The loop of filterDevClass is over.  The write lock is released, the
\* entry takes the results and the time, its lock is released, and the
\* caller goes on as after an attach-info fetch.
FilterDone(t) ==
    /\ th[t].pc = "filter"
    /\ heap[th[t].results].v.pending = {}
    /\ \E id \in {th[t].item} :
       \E h \in {[heap EXCEPT ![th[t].results].v.writer = NoThread]} :
       \E ents \in {[entries EXCEPT ![id].lastResults = th[t].results,
                                    ![id].lastCached = now,
                                    ![id].lock = NoThread]} :
           IF th[t].op \in FabricOps
           THEN /\ ReturnFabric(t, h, ents, th[t].results, "refreshed")
                /\ last' = last
           ELSE RefreshNext(t, h, ents)
    /\ UNCHANGED <<now, attachInfoCacheDisabled, fabricCacheDisabled,
                   clientTelemetryEnabled, clientTelemetryRetain, providers,
                   attachInfoRefresh, items, flight, factoryCalls, created>>

----------------------------------------------------------------------------
(* What a caller does with the record GetAttachInfo returned to it *)

\* The values a caller writes.
CallerEnv == "CALLER=1"
CallerUri == "uri-caller"
CallerRank == 7

\* Thread t holds a record that a call returned to it.
Holds(t) == th[t].pc = "idle" /\ th[t].resp # NilResp

\* A write by caller t to the given field: the heap becomes h, and nothing
\* of the cache's own state changes.
CallerWrite(t, field, h, ths) ==
    /\ Commit(h, entries, ths)
    /\ last' = [Call(t, "Write", field) EXCEPT !.seq = 1 - last.seq]
    /\ UNCHANGED <<now, attachInfoCacheDisabled, fabricCacheDisabled,
                   clientTelemetryEnabled, clientTelemetryRetain, providers,
                   attachInfoRefresh, items, flight, factoryCalls, created>>

\* resp.ClientNetHint.EnvVars[i] = CallerEnv
SetEnvVar(t) ==
    /\ Holds(t)
    /\ \E i \in DOMAIN Elems(heap, th[t].resp.EnvVars) :
          CallerWrite(t, "EnvVars",
                      [heap EXCEPT ![th[t].resp.EnvVars].v[i] = CallerEnv], th)

\* resp.ClientNetHint.EnvVars = append(resp.ClientNetHint.EnvVars, CallerEnv):
\* the slice a call returned has no spare capacity that anybody else's
\* slice covers, so the elements move to a new array.
AppendEnvVar(t) ==
    /\ Holds(t)
    /\ Len(Elems(heap, th[t].resp.EnvVars)) < MaxEnvVars
    /\ \E e \in {Append1(heap, th[t].resp.EnvVars, CallerEnv)} :
          CallerWrite(t, "EnvVars", e.heap,
                      [th EXCEPT ![t].resp.EnvVars = e.ref])

\* resp.MSRanks[i] = CallerRank
SetMSRank(t) ==
    /\ Holds(t)
    /\ \E i \in DOMAIN Elems(heap, th[t].resp.MSRanks) :
          CallerWrite(t, "MSRanks",
                      [heap EXCEPT ![th[t].resp.MSRanks].v[i] = CallerRank], th)

\* resp.ServiceRanks[i] = &PrimaryServiceRank{Rank: CallerRank, Uri: CallerUri}
SetServiceRank(t) ==
    /\ Holds(t)
    /\ \E i \in DOMAIN Elems(heap, th[t].resp.ServiceRanks) :
          CallerWrite(t, "ServiceRanks",
                      [Append(heap, Obj([Rank |-> CallerRank, Uri |-> CallerUri]))
                          EXCEPT ![th[t].resp.ServiceRanks].v[i] = Len(heap) + 1],
                      th)

\* resp.ServiceRanks[i].Uri = CallerUri
SetServiceRankUri(t) ==
    /\ Holds(t)
    /\ \E i \in DOMAIN Elems(heap, th[t].resp.ServiceRanks) :
          CallerWrite(t, "ServiceRanks",
                      [heap EXCEPT
                          ![Elems(heap, th[t].resp.ServiceRanks)[i]].v.Uri =
                              CallerUri], th)

\* The same write to an element of the secondary rank list.
SetSecondaryRankUri(t) ==
    /\ Holds(t)
    /\ \E i \in DOMAIN Elems(heap, th[t].resp.SecondaryRanks) :
          CallerWrite(t, "SecondaryRanks",
                      [heap EXCEPT
                          ![Elems(heap, th[t].resp.SecondaryRanks)[i]].v.Uri =
                              CallerUri], th)

\* A write to the environment-variable list of the record t holds.
EnvMutate(t) == SetEnvVar(t) \/ AppendEnvVar(t)

\* A write to one of the rank lists of the record t holds.
RankMutate(t) ==
    \/ SetMSRank(t)
    \/ SetServiceRank(t)
    \/ SetServiceRankUri(t)
    \/ SetSecondaryRankUri(t)

----------------------------------------------------------------------------
(* Toggles and the clock *)

DisableAttachInfoCache ==
    /\ attachInfoCacheDisabled' = TRUE
    /\ UNCHANGED <<now, fabricCacheDisabled, clientTelemetryEnabled,
                   clientTelemetryRetain, providers, attachInfoRefresh, items,
                   entries, flight, th, heap, last, factoryCalls, created>>

\* An enabling that starts the cache anew, without the entries it tracked.
EnableAttachInfoCacheEvicting(interval) ==
    /\ attachInfoRefresh' = interval
    /\ attachInfoCacheDisabled' = FALSE
    /\ items' = [k \in AllKeys |->
                   IF HasPrefix(k, attachInfoKey) THEN NoEntry ELSE items[k]]
    /\ UNCHANGED <<now, fabricCacheDisabled, clientTelemetryEnabled,
                   clientTelemetryRetain, providers, entries, flight, th, heap,
                   last, factoryCalls, created>>

\* An enabling that gives its interval to the entries already made.
EnableAttachInfoCacheRetiming(interval) ==
    /\ attachInfoRefresh' = interval
    /\ attachInfoCacheDisabled' = FALSE
    /\ entries' = [i \in DOMAIN entries |->
                     IF entries[i].kind = "attach"
                     THEN [entries[i] EXCEPT !.refreshInterval = interval]
                     ELSE entries[i]]
    /\ UNCHANGED <<now, fabricCacheDisabled, clientTelemetryEnabled,
                   clientTelemetryRetain, providers, items, flight, th, heap,
                   last, factoryCalls, created>>

EnableAttachInfoCache(interval) ==
    /\ attachInfoRefresh' = interval
    /\ attachInfoCacheDisabled' = FALSE
    /\ UNCHANGED <<now, fabricCacheDisabled, clientTelemetryEnabled,
                   clientTelemetryRetain, providers, items, entries, flight,
                   th, heap, last, factoryCalls, created>>

\* A disabling that forgets the fabric key.
DisableFabricCacheEvicting ==
    /\ fabricCacheDisabled' = TRUE
    /\ items' = [items EXCEPT ![fabricKey] = NoEntry]
    /\ UNCHANGED <<now, attachInfoCacheDisabled, clientTelemetryEnabled,
                   clientTelemetryRetain, providers, attachInfoRefresh,
                   entries, flight, th, heap, last, factoryCalls, created>>

DisableFabricCache ==
    /\ fabricCacheDisabled' = TRUE
    /\ UNCHANGED <<now, attachInfoCacheDisabled, clientTelemetryEnabled,
                   clientTelemetryRetain, providers, attachInfoRefresh, items,
                   entries, flight, th, heap, last, factoryCalls, created>>

EnableFabricCache ==
    /\ fabricCacheDisabled' = FALSE
    /\ UNCHANGED <<now, attachInfoCacheDisabled, clientTelemetryEnabled,
                   clientTelemetryRetain, providers, attachInfoRefresh, items,
                   entries, flight, th, heap, last, factoryCalls, created>>

\* ItemCache.Set of the entry that will have id: it is tracked under key, in
\* place of the entry that was, if any.
Set(key, id) == items' = [items EXCEPT ![key] = id]

\* EnableStaticFabricCache with a NUMAFabric of topology tp, which the
\* caller has made: the entry built around it is set under the fabric key,
\* and the fabric cache is enabled.
EnableStaticFabricCache(tp) ==
    /\ Len(entries) < MaxEntries
    /\ \E nf \in {Len(heap) + 1} :
          Commit(Append(heap, Fab(ScanMap(tp))),
                 Append(entries, staticFabricInfo(nf, now)), th)
    /\ Set(fabricKey, Len(entries) + 1)
    /\ fabricCacheDisabled' = FALSE
    /\ UNCHANGED <<now, attachInfoCacheDisabled, clientTelemetryEnabled,
                   clientTelemetryRetain, providers, attachInfoRefresh, flight,
                   last, factoryCalls, created>>

\* The names of fabric providers: those that callers ask for, and one more.
Providers == {"ofi+tcp", "ofi+verbs"}

\* AddProvider(prov): the name goes into the set of the facade, unless it
\* is empty.
AddProvider(prov) ==
    /\ providers' = IF prov = "" THEN providers ELSE providers \cup {prov}
    /\ UNCHANGED <<now, attachInfoCacheDisabled, fabricCacheDisabled,
                   clientTelemetryEnabled, clientTelemetryRetain,
                   attachInfoRefresh, items, entries, flight, th, heap, last,
                   factoryCalls, created>>

\* The providers that the scanner of the facade is called with by thread t,
\* whose scan is under way: those of the call in bypass mode, those of the
\* entry in a refresh.
ScanProviders(t) ==
    IF th[t].pc = "bscan" THEN Range(th[t].providers)
    ELSE Range(entries[th[t].item].providers)

(***************************************************************************)
(* Methods called on a nil receiver                                        *)
(***************************************************************************)

\* The methods of InfoCache that return an error.
FacadeCalls == {"GetAttachInfo", "GetFabricDevice", "GetNUMAFabricMap",
                "Refresh"}

\* The methods of InfoCache that return nothing.
FacadeSetters == {"AddProvider", "DisableAttachInfoCache",
                  "EnableAttachInfoCache", "DisableFabricCache",
                  "EnableFabricCache", "EnableStaticFabricCache"}

\* The methods of InfoCache that return a flag.
FacadeQueries == {"IsAttachInfoCacheEnabled", "IsFabricCacheEnabled"}

\* The refresh methods of the attach-info and of the fabric entry.
AttachEntryCalls == {"cachedAttachInfo.RefreshIfNeeded",
                     "cachedAttachInfo.refresh", "cachedAttachInfo.Refresh"}
FabricEntryCalls == {"cachedFabricInfo.RefreshIfNeeded",
                     "cachedFabricInfo.refresh", "cachedFabricInfo.Refresh"}

Methods ==
    FacadeCalls \cup FacadeSetters \cup FacadeQueries
       \cup AttachEntryCalls \cup FabricEntryCalls

\* A nil receiver that is answered without an error.
nilReceiverNoError(m) == [err |-> "", flag |-> FALSE]

\* What method m returns when its receiver is nil: the error, and the flag
\* of a query (of RefreshIfNeeded: whether it refreshed).
nilReceiver(m) ==
    CASE m \in FacadeCalls -> [err |-> "InfoCache is nil", flag |-> FALSE]
      [] m \in AttachEntryCalls ->
            [err |-> "cachedAttachInfo is nil", flag |-> FALSE]
      [] m \in FabricEntryCalls ->
            [err |-> "cachedFabricInfo is nil", flag |-> FALSE]
      [] OTHER -> [err |-> "", flag |-> FALSE]

\* Thread t calls method m on a nil receiver: the method returns at its
\* first statement.
NilCall(t, m) ==
    /\ th[t].pc = "idle"
    /\ th[t].nf = NilRef
    /\ \E r \in {nilReceiver(m)} :
          Commit(heap, entries,
                 [th EXCEPT ![t] =
                    [Returned(NilResp, r.err) EXCEPT !.flag = r.flag]])
    /\ last' = [NoCall EXCEPT !.op = m, !.t = t, !.path = "nil", !.at = now]
    /\ UNCHANGED <<now, attachInfoCacheDisabled, fabricCacheDisabled,
                   clientTelemetryEnabled, clientTelemetryRetain, providers,
                   attachInfoRefresh, items, flight, factoryCalls, created>>

\* Time passes.
Tick ==
    /\ now < MaxTime
    /\ now' = now + 1
    /\ UNCHANGED <<attachInfoCacheDisabled, fabricCacheDisabled,
                   clientTelemetryEnabled, clientTelemetryRetain, providers,
                   attachInfoRefresh, items, entries, flight, th, heap, last,
                   factoryCalls, created>>

----------------------------------------------------------------------------
(* Specifications *)

\* One step of an attach-info call of thread t, with requests for the
\* systems of S and fetcher outcomes of O.
AttachStep(t, S, O) ==
    \/ \E sys \in S : GetAttachInfo(t, sys)
    \/ CreateAttachInfo(t)
    \/ LockAttachInfo(t)
    \/ \E o \in O : FetchDone(t, o)

\* One step of a fabric call of thread t, with requests for the device
\* classes of C, readiness outcomes of W and scanner outcomes of O.
FabricStep(t, C, W, O) ==
    \/ \E c \in C : GetNUMAFabricMap(t, c)
    \/ RLockMap(t)
    \/ ReleaseMap(t)
    \/ \E w \in W : CreateFabric(t, w)
    \/ LockFabric(t)
    \/ \E o \in O : ScanDone(t, o)
    \/ LockMap(t)
    \/ FilterNode(t)
    \/ FilterDone(t)

\* One step of a GetFabricDevice call of thread t, once it has left
\* getNUMAFabric, with requests for the device classes of C and the
\* interface names of I.
DeviceStep(t, C, I) ==
    \/ \E c \in C, iface \in I : GetFabricDevice(t, c, iface)
    \/ DeviceDone(t)

\* One step of a fabric call in bypass mode.
BypassStep(t, W, O) ==
    \/ \E w \in W : BypassReady(t, w)
    \/ \E o \in O : BypassScan(t, o)

\* The interface names a caller may ask for ("" asks for any interface).
IfaceNames == {"", "eth0"}

\* A toggle of the attach-info cache.
AttachToggle ==
    \/ DisableAttachInfoCache
    \/ \E i \in Intervals : EnableAttachInfoCache(i)

\* A toggle of the fabric cache.
FabricToggle ==
    \/ DisableFabricCache
    \/ EnableFabricCache

\* One step of a forced refresh by thread t.
RefreshStep(t) ==
    \/ Refresh(t)
    \/ RefreshLock(t)

\* Concurrent callers: two threads, both caches enabled, one system.
Init == InitWith({FALSE}, {FALSE}, {1})

Next ==
    \/ \E t \in Procs : AttachStep(t, {"sysA"}, {"err", "A"})
    \/ \E t \in Procs : FabricStep(t, {"Ether"}, WaitOutcomes, {"err", "M2"})
    \/ \E t \in Procs : RefreshStep(t)
    \/ Tick

Spec == Init /\ [][Next]_vars

\* One caller of the attach-info cache: one system, every configuration,
\* every answer of the service, the toggles.
InitSeq == InitWith(BOOLEAN, BOOLEAN, Intervals)

NextSeq ==
    \/ AttachStep("p1", {"sysA"}, Outcomes)
    \/ \E o \in Outcomes : RemoteDone("p1", o)
    \/ RefreshStep("p1")
    \/ AttachToggle
    \/ Tick

SpecSeq == InitSeq /\ [][NextSeq]_vars

\* Callers that write to the records they were handed: two threads, one
\* system, entries that never go stale.
InitCopy == InitWith({FALSE}, {FALSE}, {0})

NextCopy ==
    \/ \E t \in Procs : AttachStep(t, {"sysA"}, {"A", "B"})
    \/ \E t \in Procs : EnvMutate(t)
    \/ \E t \in Procs : RankMutate(t)

SpecCopy == InitCopy /\ [][NextCopy]_vars

\* One caller of the fabric cache: every device class, every answer of the
\* readiness wait and of the scanner, the toggles, the static fabric cache.
InitFab == InitWith(BOOLEAN, {FALSE}, {0})

NextFab ==
    \/ FabricStep("p1", DevClasses, WaitOutcomes \cup {"nolist"}, ScanOutcomes)
    \/ DeviceStep("p1", {"Ether"}, IfaceNames)
    \/ BypassStep("p1", WaitOutcomes \cup {"nolist"}, ScanOutcomes)
    \/ RefreshStep("p1")
    \/ FabricToggle
    \/ Tick

SpecFab == InitFab /\ [][NextFab]_vars

\* One caller of a fabric cache that is seeded statically, before or after
\* a scan was cached, with the fabric cache enabled or disabled.
InitStatic == InitWith(BOOLEAN, {FALSE}, {0})

NextStatic ==
    \/ FabricStep("p1", {"Ether"}, {"ok"}, {"M2"})
    \/ DeviceStep("p1", {"Ether"}, IfaceNames)
    \/ BypassStep("p1", {"ok"}, {"M2"})
    \/ RefreshStep("p1")
    \/ FabricToggle
    \/ \E tp \in Topologies : EnableStaticFabricCache(tp)

SpecStatic == InitStatic /\ [][NextStatic]_vars

\* Readers and refreshes of the fabric map: two threads that ask for the
\* map, hold it, release it and force refreshes, on a scanned entry and on
\* a static one.
InitRW == InitWith({FALSE}, {FALSE}, {0})

NextRW ==
    \/ \E t \in Procs : FabricStep(t, {"Ether"}, {"ok"}, {"M1"})
    \/ \E t \in Procs : RefreshStep(t)
    \/ EnableStaticFabricCache("M1")

SpecRW == InitRW /\ [][NextRW]_vars

\* One caller of both caches: one system, one device class, every
\* configuration, the toggles of both caches, forced refreshes.
InitAll == InitWith(BOOLEAN, {FALSE}, Intervals)

NextAll ==
    \/ AttachStep("p1", {"sysA"}, {"err", "A"})
    \/ \E o \in {"err", "A"} : RemoteDone("p1", o)
    \/ FabricStep("p1", {"Ether"}, WaitOutcomes, {"err", "M2"})
    \/ BypassStep("p1", WaitOutcomes, {"err", "M2"})
    \/ RefreshStep("p1")
    \/ AttachToggle
    \/ FabricToggle
    \/ Tick

SpecAll == InitAll /\ [][NextAll]_vars

\* A round of the readiness wait of thread t while the interfaces it waits
\* for do not report ready.
WaitStep(t) ==
    \E w \in {WaitFabricReady(FALSE, th[t].ctx)} :
       \/ CreateFabric(t, w)
       \/ BypassReady(t, w)

\* One caller of the fabric cache on a host whose interfaces never report
\* ready, with contexts that are cancelled or run out.  The caller's thread
\* keeps running, so the polling loop of a wait goes on while it can.
InitWait == InitWith(BOOLEAN, {FALSE}, {0})

NextWait ==
    \/ \E c \in DevClasses : GetNUMAFabricMap("p1", c)
    \/ \E c \in DevClasses, iface \in IfaceNames : GetFabricDevice("p1", c, iface)
    \/ WaitStep("p1")
    \/ CtxDone("p1")
    \/ FabricToggle

SpecWait == InitWait /\ [][NextWait]_vars /\ WF_vars(WaitStep("p1"))

\* One caller of the fabric cache and the providers added to the facade.
InitProv == InitWith(BOOLEAN, {FALSE}, {0})

NextProv ==
    \/ FabricStep("p1", {"Ether"}, {"ok"}, {"err", "M2"})
    \/ BypassStep("p1", {"ok"}, {"err", "M2"})
    \/ RefreshStep("p1")
    \/ FabricToggle
    \/ \E prov \in Providers \cup {""} : AddProvider(prov)

SpecProv == InitProv /\ [][NextProv]_vars

\* One caller of every operation of the facade: attach info, the fabric
\* map and devices, forced refreshes, the toggles and the static fabric
\* cache, with fetches, waits and scans that may fail.
InitKeys == InitWith(BOOLEAN, {FALSE}, {0})

NextKeys ==
    \/ AttachStep("p1", {"sysA"}, {"err", "A"})
    \/ RemoteDone("p1", "A")
    \/ FabricStep("p1", {"Ether"}, WaitOutcomes, {"err", "M2"})
    \/ DeviceStep("p1", {"Ether"}, {"eth0"})
    \/ BypassStep("p1", {"ok"}, {"M2"})
    \/ RefreshStep("p1")
    \/ DisableAttachInfoCache
    \/ EnableAttachInfoCache(0)
    \/ FabricToggle
    \/ EnableStaticFabricCache("M2")

SpecKeys == InitKeys /\ [][NextKeys]_vars

\* Callers of different keys: two threads that ask for the attach info of
\* a named system and of the default one and for the fabric map.
InitCross == InitWith({FALSE}, {FALSE}, {0})

NextCross ==
    \/ \E t \in Procs : AttachStep(t, {"", "sysA"}, {"A"})
    \/ \E t \in Procs : FabricStep(t, {"Ether"}, {"ok"}, {"M2"})

SpecCross == InitCross /\ [][NextCross]_vars

\* Requests that name no system beside requests that name the default one:
\* two threads, entries that never go stale.
InitDefault == InitWith({FALSE}, BOOLEAN, {0})

NextDefault ==
    \E t \in Procs : AttachStep(t, {"", DefaultSystemName}, {"err", "A", "B"})

SpecDefault == InitDefault /\ [][NextDefault]_vars

\* Two systems, one caller: requests that name no system and requests for
\* sysA, entries that go stale, forced refreshes.
InitIso == InitWith({FALSE}, {FALSE}, Intervals)

NextIso ==
    \/ AttachStep("p1", {"", "sysA"}, {"err", "A", "B"})
    \/ RefreshStep("p1")
    \/ Tick

SpecIso == InitIso /\ [][NextIso]_vars

\* One caller of the fabric cache on hosts with every list of interfaces,
\* ready or not, with contexts that are cancelled or run out.
InitReady == InitWith(BOOLEAN, {FALSE}, {0})

NextReady ==
    \/ \E c \in DevClasses : GetNUMAFabricMap("p1", c)
    \/ \E env \in LocalEnvs : ListIfaces("p1", env)
    \/ \E ready \in BOOLEAN : WaitListed("p1", ready)
    \/ CtxDone("p1")
    \/ LockFabric("p1")
    \/ \E o \in {"err", "M2"} : ScanDone("p1", o)
    \/ \E o \in {"err", "M2"} : BypassScan("p1", o)
    \/ LockMap("p1")
    \/ FilterNode("p1")
    \/ FilterDone("p1")
    \/ RLockMap("p1")
    \/ ReleaseMap("p1")

SpecReady == InitReady /\ [][NextReady]_vars

\* Calls on a nil receiver beside the calls of one thread on a cache that
\* was constructed.
InitNil == InitWith({FALSE}, {FALSE}, {0})

NextNil ==
    \/ AttachStep("p1", {"sysA"}, {"err", "A"})
    \/ FabricStep("p1", {"Ether"}, {"ok"}, {"M2"})
    \/ \E m \in Methods : NilCall("p1", m)

SpecNil == InitNil /\ [][NextNil]_vars

----------------------------------------------------------------------------
(* Properties *)

\* The threads whose fetch or scan on behalf of entry id is under way.
Refreshing(id) == {t \in Procs : th[t].pc \in {"fetch", "scan"}
                                   /\ th[t].item = id}

\* C1: single-flight creation.  For every key at most one factory call is
\* running, the callers that reached GetOrCreate meanwhile wait for it, the
\* factory has built at most one entry for the key over the whole run, and
\* every caller that GetOrCreate handed an entry for the key has that entry.
C1_SingleFlight ==
    \A k \in AllKeys :
        /\ Cardinality({t \in Procs : th[t].pc = "factory" /\ th[t].key = k}) <= 1
        /\ factoryCalls[k] <= 1
        /\ Cardinality(created[k]) <= 1
        /\ created[k] = {items[k]} \ {NoEntry}
        /\ \A t \in Procs :
              /\ th[t].pc = "wait" /\ th[t].key = k
                    => flight[k] \in Procs \ {t} /\ th[flight[k]].pc = "factory"
              /\ th[t].pc = "factory" /\ th[t].key = k
                    => flight[k] = t /\ items[k] = NoEntry
              /\ th[t].pc \in {"lock", "fetch", "scan"} /\ th[t].key = k
                    => th[t].item = items[k] /\ factoryCalls[k] = 1

\* C1 witness: two callers reached GetOrCreate for the same untracked key,
\* one runs the factory and the other waits for it.
C1_Witness ==
    /\ th["p1"].pc = "factory"
    /\ th["p2"].pc = "wait"
    /\ th["p2"].key = th["p1"].key
    /\ items[th["p1"].key] = NoEntry

\* C2: at most one refresh is in flight per entry.  No two threads have a
\* fetch or a scan under way on behalf of the same entry, and the thread that
\* has one holds the entry's lock.
C2_OneRefreshPerEntry ==
    \A id \in DOMAIN entries :
        /\ Cardinality(Refreshing(id)) <= 1
        /\ \A t \in Refreshing(id) : entries[id].lock = t

\* C2 witness: a forced Refresh has its fetch under way on a cached entry
\* while a GetAttachInfo call for the same key, which found the entry stale,
\* waits for the entry's lock.
C2_Witness ==
    \E id \in DOMAIN entries :
        /\ isStale(entries[id], now)
        /\ th["p1"].pc = "fetch" /\ th["p1"].op = "Refresh" /\ th["p1"].item = id
        /\ th["p2"].pc = "lock" /\ th["p2"].op = "GetAttachInfo"
        /\ th["p2"].item = id

\* strings.HasSuffix(s, suffix)
HasSuffix(s, suffix) ==
    /\ Len(s) >= Len(suffix)
    /\ SubSeq(s, Len(s) - Len(suffix) + 1, Len(s)) = suffix

\* What entry e of heap h has cached: the response as a reader sees it, and
\* the fabric map.
Content(h, e) ==
    [lastResponse |-> View(h, e.lastResponse),
     lastResults |-> IF e.lastResults = NilRef THEN [nil |-> TRUE]
                     ELSE [numaMap |-> h[e.lastResults].v.numaMap]]

\* In this step the refresh that thread t ran on an entry fails, and t's call
\* returns.
RefreshFails(t) ==
    /\ th[t].pc \in {"fetch", "scan"}
    /\ th'[t].pc = "idle"
    /\ th'[t].err # ""

\* C3: a failing refresh of an attach-info entry or of the fabric entry
\* leaves the entry's lastCached and its cached content as they were, and the
\* error returned wraps the error of the fetcher or of the scanner.
C3_FailurePreservesEntry ==
    [][\A t \in Procs :
          RefreshFails(t) =>
             /\ entries'[th[t].item].lastCached = entries[th[t].item].lastCached
             /\ Content(heap', entries'[th[t].item])
                   = Content(heap, entries[th[t].item])
             /\ HasSuffix(th'[t].err,
                          ": " \o (IF th[t].pc = "fetch" THEN RpcError
                                   ELSE ScanError))]_vars

\* C3 witness: a call returned the failure of a refresh of an attach-info
\* entry that holds a response fetched earlier.
C3_Witness ==
    /\ last.path = "failed"
    /\ HasPrefix(last.key, attachInfoKey)
    /\ isCached(entries[items[last.key]])
    /\ entries[items[last.key]].lastResponse # NilResp
    /\ th[last.t].err # ""

\* The environment variables a reader of response r sees.
EnvOf(h, r) == IF r = NilResp THEN <<>> ELSE Elems(h, r.EnvVars)

\* The responses of the entries as their readers see them.
Masters(h, ents) == [i \in DOMAIN ents |-> View(h, ents[i].lastResponse)]

\* In this step GetAttachInfo returns to thread t what entry th[t].item has
\* cached.
ServedFromCache(t) ==
    /\ th[t].op = "GetAttachInfo"
    /\ th[t].pc \in {"lock", "fetch"}
    /\ th'[t].pc = "idle"
    /\ th'[t].err = ""

\* In this step caller t writes to one of the given fields of its record.
Wrote(t, fields) ==
    /\ last' # last
    /\ last'.op = "Write"
    /\ last'.t = t
    /\ last'.path \in fields

\* The fields of a record that hold lists.
ListFields == {"EnvVars", "MSRanks", "ServiceRanks", "SecondaryRanks"}

\* No array of environment variables is in the hands of two holders: the
\* entries' and the threads' lists are distinct lists.
EnvVarsDistinct ==
    /\ \A t \in Procs, i \in DOMAIN entries :
          th[t].resp # NilResp /\ entries[i].lastResponse # NilResp
          /\ th[t].resp.EnvVars # NilRef
             => th[t].resp.EnvVars # entries[i].lastResponse.EnvVars
    /\ \A t, u \in Procs :
          t # u /\ th[t].resp # NilResp /\ th[u].resp # NilResp
          /\ th[t].resp.EnvVars # NilRef
             => th[t].resp.EnvVars # th[u].resp.EnvVars

\* C4: the records GetAttachInfo returns from a cached entry have
\* environment-variable lists of their own.  A call served from the cache
\* returns the entry's list, element for element, in an array no other holder
\* has; and when a caller overwrites an element of its list or appends to it,
\* the list of every entry and of every other caller stays as it was.
C4_EnvVarsIndependent ==
    /\ []EnvVarsDistinct
    /\ [][\A t \in Procs :
            /\ ServedFromCache(t) =>
                  EnvOf(heap', th'[t].resp)
                     = EnvOf(heap', entries'[th[t].item].lastResponse)
            /\ Wrote(t, {"EnvVars"}) =>
                  /\ \A i \in DOMAIN entries :
                        EnvOf(heap', entries'[i].lastResponse)
                           = EnvOf(heap, entries[i].lastResponse)
                  /\ \A u \in Procs \ {t} :
                        EnvOf(heap', th'[u].resp) = EnvOf(heap, th[u].resp)]_vars

\* C4 witness: two callers hold records of the same system, the first has
\* written to its environment-variable list, and the second's list is still
\* the entry's, which is not empty.
C4_Witness ==
    /\ Holds("p1") /\ Holds("p2")
    /\ items[sysAttachInfoKey("sysA")] # NoEntry
    /\ CallerEnv \in Range(EnvOf(heap, th["p1"].resp))
    /\ EnvOf(heap, th["p2"].resp) # <<>>
    /\ EnvOf(heap, th["p2"].resp)
          = EnvOf(heap, entries[items[sysAttachInfoKey("sysA")]].lastResponse)

\* C5: a record GetAttachInfo returned from a cached entry is independent of
\* the entry's record in all its parts.  Whatever a caller writes to its
\* record, to the environment variables, to the rank list, or to the elements
\* of the service-rank and secondary rank lists, the record of every entry and
\* of every other caller reads as before.
C5_RecordIndependent ==
    [][\A t \in Procs :
          Wrote(t, ListFields) =>
             /\ Masters(heap', entries') = Masters(heap, entries)
             /\ \A u \in Procs \ {t} :
                   View(heap', th'[u].resp) = View(heap, th[u].resp)]_vars

\* How many times x occurs in s.
Count(s, x) == Cardinality({i \in DOMAIN s : s[i] = x})

\* The caller of the call that returned last still holds what a
\* GetAttachInfo served from the cache returned to it.
HoldsServed(t) ==
    /\ last.t = t
    /\ last.op = "GetAttachInfo"
    /\ last.path \in {"hit", "refreshed"}
    /\ Holds(t)

\* In this step GetAttachInfo returns to thread t what a fresh entry has
\* cached, nothing fetched.
Hit(t) ==
    /\ th[t].op = "GetAttachInfo"
    /\ th[t].pc = "lock"
    /\ th'[t].pc = "idle"

\* C6: the telemetry settings are added once, at the fetch, and not at a
\* read.  A record served from the cache has the environment variables of
\* the entry's record, with the client-metrics-enabled variable exactly once
\* when telemetry is enabled (and never otherwise) and the retain variable
\* exactly once when retention is enabled too; and a cache hit leaves the
\* entry's record as it was, so that the next hit returns the same list.
C6_TelemetryOnce ==
    /\ [](\A t \in Procs :
            HoldsServed(t) =>
               /\ EnvOf(heap, th[t].resp)
                     = EnvOf(heap, entries[items[last.key]].lastResponse)
               /\ Count(EnvOf(heap, th[t].resp), ClientMetricsEnabledEnv \o "=1")
                     = (IF clientTelemetryEnabled THEN 1 ELSE 0)
               /\ Count(EnvOf(heap, th[t].resp), ClientMetricsRetainEnv \o "=1")
                     = (IF clientTelemetryEnabled /\ clientTelemetryRetain
                        THEN 1 ELSE 0))
    /\ [][\A t \in Procs :
            Hit(t) => Masters(heap', entries') = Masters(heap, entries)]_vars

\* C6 witness: with telemetry and retention enabled, a cache hit returned a
\* record with the service's variable and the two telemetry variables.
C6_Witness ==
    /\ clientTelemetryEnabled /\ clientTelemetryRetain
    /\ last.path = "hit"
    /\ HoldsServed(last.t)
    /\ Len(EnvOf(heap, th[last.t].resp)) = 3

\* C7: an answer without a primary provider fails the refresh of an
\* attach-info entry like a failed fetch.  When the fetch of a refresh comes
\* back with such an answer the call returns an error, and the entry's
\* lastCached and record stay as they were.
C7_NoProviderRejected ==
    [][\A t \in Procs :
          th[t].pc = "fetch" /\ FetchDone(t, "N") =>
             /\ th'[t].err # ""
             /\ entries'[th[t].item].lastCached = entries[th[t].item].lastCached
             /\ Content(heap', entries'[th[t].item])
                   = Content(heap, entries[th[t].item])]_vars

\* In this step thread t begins a GetAttachInfo call.
Begins(t) ==
    /\ th[t].pc = "idle"
    /\ th'[t].pc # "idle"
    /\ th'[t].op = "GetAttachInfo"

\* C8: a GetAttachInfo call that finds the attach-info cache disabled goes to
\* the remote fetcher, once, with a request for the system asked for and
\* AllRanks set, and returns when that fetch comes back: it does not touch
\* the entries, whatever they hold.
C8_BypassFetchesAllRanks ==
    [][\A t \in Procs :
          /\ Begins(t) /\ attachInfoCacheDisabled =>
                /\ th'[t].pc = "remote"
                /\ th'[t].nfetch = 1
                /\ th'[t].req = [System |-> th'[t].sys, AllRanks |-> TRUE]
          /\ Begins(t) /\ ~attachInfoCacheDisabled => th'[t].pc # "remote"
          /\ th[t].pc = "remote" /\ th'[t].pc # "remote" =>
                /\ th'[t].pc = "idle"
                /\ last' = Call(t, "GetAttachInfo", "bypass")
                /\ Masters(heap', entries') = Masters(heap, entries)
                /\ \A i \in DOMAIN entries :
                      entries'[i].lastCached = entries[i].lastCached]_vars

\* C8 witness: a call fetched directly and got a record, while an entry for
\* the system holds a record that is not stale.
C8_Witness ==
    /\ attachInfoCacheDisabled
    /\ last.op = "GetAttachInfo" /\ last.path = "bypass"
    /\ Holds(last.t)
    /\ items[sysAttachInfoKey("sysA")] # NoEntry
    /\ ~needsRefresh(entries[items[sysAttachInfoKey("sysA")]], now)

\* In this step the RefreshIfNeeded of GetAttachInfo's GetOrCreate runs on
\* the entry thread t was handed.
Checks(t) ==
    /\ th[t].op = "GetAttachInfo"
    /\ th[t].pc = "lock"
    /\ th'[t].pc # "lock"

\* C9, as the code has it: an attach-info entry cached at T with interval D
\* is refreshed by RefreshIfNeeded at clock now exactly if D is not 0 and now
\* is after T + D; at now = T + D it is still fresh.
C9_StaleAfterInterval ==
    [][\A t \in Procs :
          Checks(t) /\ isCached(entries[th[t].item]) =>
             (th'[t].pc = "fetch"
                <=> /\ entries[th[t].item].refreshInterval # 0
                    /\ now > entries[th[t].item].lastCached
                                + entries[th[t].item].refreshInterval)]_vars

\* C9, as stated: the entry is fresh if D = 0 or now is before T + D, and
\* stale otherwise, so that it is refreshed at now = T + D.
C9_StaleAtInterval ==
    [][\A t \in Procs :
          Checks(t) /\ isCached(entries[th[t].item]) =>
             (th'[t].pc = "fetch"
                <=> ~(\/ entries[th[t].item].refreshInterval = 0
                      \/ now < entries[th[t].item].lastCached
                                  + entries[th[t].item].refreshInterval))]_vars

\* C9 witness: a call was served by a cache hit at the very clock T + D of
\* the entry, D not 0.
C9_Witness ==
    /\ last.op = "GetAttachInfo" /\ last.path = "hit"
    /\ entries[items[last.key]].refreshInterval # 0
    /\ last.at = entries[items[last.key]].lastCached
                    + entries[items[last.key]].refreshInterval

\* C10: an attach-info entry with refresh interval 0 never goes stale.  Once
\* it is cached, the RefreshIfNeeded of every GetAttachInfo finds nothing to
\* do, at any clock: the call returns the cached record without a fetch and
\* the entry's lastCached stays; a forced Refresh does fetch for it.
C10_NoAutoStale ==
    [][\A t \in Procs :
          /\ (/\ Checks(t)
              /\ isCached(entries[th[t].item])
              /\ entries[th[t].item].refreshInterval = 0) =>
                /\ th'[t].pc = "idle"
                /\ th'[t].err = ""
                /\ th'[t].resp # NilResp
                /\ last' = Call(t, "GetAttachInfo", "hit")
                /\ entries'[th[t].item].lastCached
                      = entries[th[t].item].lastCached
          /\ (/\ th[t].op = "Refresh"
              /\ th[t].pc = "rlock"
              /\ th'[t].pc # "rlock") => th'[t].pc = "fetch"]_vars

\* C10 witness: a call was served by a cache hit from an entry with interval
\* 0 two ticks after the entry was cached.
C10_Witness ==
    /\ last.op = "GetAttachInfo" /\ last.path = "hit"
    /\ entries[items[last.key]].refreshInterval = 0
    /\ last.at >= entries[items[last.key]].lastCached + 2

\* C11: TTL expiry.  When more than the refresh interval D > 0 of a cached
\* attach-info entry has gone by since its last successful fetch, the
\* RefreshIfNeeded of the next GetAttachInfo refreshes: the fetch it starts is
\* the first of the call, and when that fetch comes back the call returns
\* without another.
C11_TTLExpiry ==
    [][\A t \in Procs :
          /\ (/\ Checks(t)
              /\ isCached(entries[th[t].item])
              /\ entries[th[t].item].refreshInterval > 0
              /\ now - entries[th[t].item].lastCached
                    > entries[th[t].item].refreshInterval) =>
                /\ th'[t].pc = "fetch"
                /\ th[t].nfetch = 0
                /\ th'[t].nfetch = 1
                /\ entries'[th[t].item].lock = t
          /\ (/\ th[t].op = "GetAttachInfo"
              /\ th[t].pc = "fetch"
              /\ th'[t].pc # "fetch") =>
                /\ th'[t].pc = "idle"
                /\ th[t].nfetch = 1]_vars

\* C11 witness: the fetch of a GetAttachInfo call is under way on behalf of
\* an entry that was cached more than its interval ago.
C11_Witness ==
    /\ th["p1"].op = "GetAttachInfo"
    /\ th["p1"].pc = "fetch"
    /\ th["p1"].nfetch = 1
    /\ isCached(entries[th["p1"].item])
    /\ entries[th["p1"].item].refreshInterval > 0
    /\ now - entries[th["p1"].item].lastCached
          > entries[th["p1"].item].refreshInterval

\* In this step the RefreshIfNeeded of a fabric call's GetOrCreate runs on
\* the entry thread t was handed.
FabricChecks(t) ==
    /\ th[t].op \in FabricOps
    /\ th[t].pc = "lock"
    /\ th'[t].pc # "lock"

\* C12: a fabric entry never goes stale.  Once it is cached, the
\* RefreshIfNeeded of every GetNUMAFabricMap and GetFabricDevice finds
\* nothing to do, at any clock: getNUMAFabric returns the entry's lastResults
\* without a scan, the entry's lastCached stays, and the call returns from
\* there without a scan; a forced Refresh does start a scan for the entry.
C12_FabricNeverStale ==
    [][\A t \in Procs :
          /\ (FabricChecks(t) /\ isCached(entries[th[t].item])) =>
                /\ th'[t].pc \in {"rmap", "device"}
                /\ th'[t].path = "hit"
                /\ th'[t].nfetch = 0
                /\ th'[t].results = entries'[th[t].item].lastResults
                /\ entries'[th[t].item].lastCached
                      = entries[th[t].item].lastCached
          /\ (/\ th[t].pc \in {"rmap", "device"}
              /\ th'[t].pc # th[t].pc) => th'[t].pc = "idle"
          /\ (/\ th[t].op = "Refresh"
              /\ th[t].pc = "rlock"
              /\ th'[t].pc # "rlock"
              /\ Head(th[t].todo) = fabricKey) =>
                /\ th'[t].pc = "scan"
                /\ th'[t].nfetch = th[t].nfetch + 1]_vars

\* C12 witness: a fabric call was served from the entry, without a scan, two
\* ticks after the entry was cached.
C12_Witness ==
    /\ last.op \in FabricOps
    /\ last.path = "hit"
    /\ items[fabricKey] # NoEntry
    /\ isCached(entries[items[fabricKey]])
    /\ last.at >= entries[items[fabricKey]].lastCached + 2

\* Entry id of ents was built by EnableStaticFabricCache.
IsStatic(ents, id) == id # NoEntry /\ ents[id].fetch # NilRef

\* In this step thread t begins a fabric call.
FabricBegins(t) ==
    /\ th[t].pc = "idle"
    /\ th'[t].pc # "idle"
    /\ th'[t].op \in FabricOps

\* C13: the static fabric cache.  EnableStaticFabricCache, whatever the
\* state before, leaves the fabric cache enabled and the fabric key tracking
\* an entry that is cached and holds the NUMAFabric given.  While that is so,
\* a GetNUMAFabricMap or GetFabricDevice call goes to that entry, neither
\* waits for the fabric nor scans, and is answered from that NUMAFabric.
C13_StaticServed ==
    [][/\ (/\ Len(entries') > Len(entries)
           /\ IsStatic(entries', Len(entries'))) =>
              /\ ~fabricCacheDisabled'
              /\ items'[fabricKey] = Len(entries')
              /\ isCached(entries'[Len(entries')])
              /\ entries'[Len(entries')].lastResults
                    = entries'[Len(entries')].fetch
       /\ \A t \in Procs :
             /\ (/\ FabricBegins(t)
                 /\ ~fabricCacheDisabled
                 /\ IsStatic(entries, items[fabricKey])) =>
                   /\ th'[t].pc = "lock"
                   /\ th'[t].item = items[fabricKey]
             /\ (FabricChecks(t) /\ IsStatic(entries, th[t].item)) =>
                   /\ th'[t].pc \in {"rmap", "device"}
                   /\ th'[t].nfetch = 0
                   /\ th'[t].results = entries'[th[t].item].fetch
             /\ (/\ th[t].pc = "rmap"
                 /\ th'[t].pc # "rmap"
                 /\ IsStatic(entries, th[t].item)) =>
                   /\ th'[t].pc = "idle"
                   /\ th'[t].nf = entries'[th[t].item].fetch
             /\ (/\ th[t].pc = "device"
                 /\ th'[t].pc # "device"
                 /\ IsStatic(entries, th[t].item)) =>
                   /\ th'[t].pc = "idle"
                   /\ \/ th'[t].err = DeviceNotFound
                      \/ th'[t].dev \in
                            AllIfaces(heap[entries[th[t].item].fetch].v.numaMap)
      ]_vars

\* C13 witness: GetFabricDevice was answered with an interface from the
\* static entry, which took the place of an entry that had cached a scan.
C13_Witness ==
    /\ last.op = "GetFabricDevice"
    /\ last.path = "hit"
    /\ th[last.t].dev # NoDev
    /\ IsStatic(entries, items[fabricKey])
    /\ \E i \in DOMAIN entries :
          /\ ~IsStatic(entries, i)
          /\ entries[i].kind = "fabric"
          /\ isCached(entries[i])

\* C14: a static fabric cache holds a value that cannot be refreshed.  The
\* map of a NUMAFabric that EnableStaticFabricCache was given is, whenever
\* nobody holds its write lock, the map it was seeded with.
C14_StaticNeverChanges ==
    \A i \in DOMAIN entries :
        (/\ IsStatic(entries, i)
         /\ heap[entries[i].lastResults].v.writer = NoThread) =>
            heap[entries[i].lastResults].v.numaMap
               = heap[entries[i].lastResults].v.scanned

\* The interfaces of class devClass among fis, in the order of fis.
OfClass(fis, devClass) ==
    SelectSeq(fis, LAMBDA fi : fi.NetDevClass = devClass)

\* Map m with the interfaces of class devClass only, and with the nodes only
\* that have one.
OnlyClass(m, devClass) ==
    [n \in {k \in DOMAIN m : OfClass(m[k], devClass) # <<>>} |->
        OfClass(m[n], devClass)]

\* C15: filter correctness.  When a refresh of a fabric entry of device class
\* C has succeeded, the map the entry holds has, for every NUMA node, the
\* scanned interfaces of class C of that node in scan order, and no node
\* that has none.
C15_FilterCorrect ==
    [][\A t \in Procs :
          (th[t].pc = "filter" /\ th'[t].pc # "filter") =>
             /\ entries'[th[t].item].lastResults # NilRef
             /\ entries'[th[t].item].lastCached = now
             /\ heap'[entries'[th[t].item].lastResults].v.numaMap
                   = OnlyClass(heap'[entries'[th[t].item].lastResults].v.scanned,
                               entries[th[t].item].devClass)]_vars

\* C15 witness: the entry holds what a refresh left of a scan in which two
\* interfaces of another class came one after the other.
C15_Witness ==
    /\ items[fabricKey] # NoEntry
    /\ isCached(entries[items[fabricKey]])
    /\ entries[items[fabricKey]].devClass = "Infiniband"
    /\ heap[entries[items[fabricKey]].lastResults].v.scanned = ScanMap("M2")
    /\ heap[entries[items[fabricKey]].lastResults].v.numaMap
          = (0 :> <<Iface("ib0", "Infiniband")>>)

\* The threads whose filterDevClass is at work on NUMAFabric a.
Filtering(a) == {t \in Procs : th[t].pc = "filter" /\ th[t].results = a}

\* The threads that hold NUMAFabric a as GetNUMAFabricMap returned it.
Reading(a) == {t \in Procs : th[t].pc = "idle" /\ th[t].nf = a}

\* C16: reader atomicity.  The filter works on a map only while it holds the
\* map's write lock, which nobody else holds then, for reading or for
\* writing.  The map a reader holds is whole: as it was scanned, or with the
\* interfaces of one class only; and it stays as it is until the reader's
\* release action runs.
C16_ReaderAtomicity ==
    /\ [](\A a \in DOMAIN heap :
             heap[a].k = "fab" =>
                /\ Cardinality(Filtering(a)) <= 1
                /\ Filtering(a) = {heap[a].v.writer} \ {NoThread}
                /\ heap[a].v.readers = Reading(a)
                /\ heap[a].v.writer # NoThread => heap[a].v.readers = {}
                /\ heap[a].v.readers # {} =>
                      \/ heap[a].v.numaMap = heap[a].v.scanned
                      \/ \E c \in DevClasses \cup {ZeroDevClass} :
                            heap[a].v.numaMap
                               = OnlyClass(heap[a].v.scanned, c))
    /\ [][\A t \in Procs :
             (th[t].nf # NilRef /\ th'[t].nf # NilRef) =>
                heap'[th'[t].nf].v.numaMap = heap[th[t].nf].v.numaMap]_vars

\* C16 witness: a filter has done part of a map, and a GetNUMAFabricMap call
\* that is to return that map waits for its read lock.
C16_Witness ==
    \E a \in DOMAIN heap :
        /\ heap[a].k = "fab"
        /\ heap[a].v.writer = "p2"
        /\ heap[a].v.pending # {}
        /\ heap[a].v.numaMap # heap[a].v.scanned
        /\ th["p1"].pc = "rmap"
        /\ th["p1"].results = a

\* In this step a toggle of the attach-info cache took effect.
AttachToggled ==
    \/ attachInfoCacheDisabled' # attachInfoCacheDisabled
    \/ attachInfoRefresh' # attachInfoRefresh

\* In this step a toggle of the fabric cache took effect.
FabricToggled == fabricCacheDisabled' # fabricCacheDisabled

\* C17: a toggle changes the flag of its own cache only (and, for
\* EnableAttachInfoCache, the interval of entries yet to be made).  It
\* leaves the flag of the other cache, the tracked keys, the entries with
\* their content and lastCached, and the calls under way as they were.  A
\* call that begins with its cache enabled and its key tracked is handed
\* the tracked entry, and is served by it without a fetch or a scan if
\* RefreshIfNeeded finds nothing to do.
C17_ToggleFrame ==
    [][/\ AttachToggled => fabricCacheDisabled' = fabricCacheDisabled
       /\ FabricToggled =>
             /\ attachInfoCacheDisabled' = attachInfoCacheDisabled
             /\ attachInfoRefresh' = attachInfoRefresh
       /\ (AttachToggled \/ FabricToggled) =>
             /\ items' = items
             /\ entries' = entries
             /\ heap' = heap
             /\ th' = th
             /\ flight' = flight
       /\ \A t \in Procs :
             /\ (/\ Begins(t)
                 /\ ~attachInfoCacheDisabled
                 /\ items[th'[t].key] # NoEntry) =>
                   /\ th'[t].pc = "lock"
                   /\ th'[t].item = items[th'[t].key]
             /\ (/\ FabricBegins(t)
                 /\ ~fabricCacheDisabled
                 /\ items[fabricKey] # NoEntry) =>
                   /\ th'[t].pc = "lock"
                   /\ th'[t].item = items[fabricKey]
             /\ (Checks(t) /\ ~needsRefresh(entries[th[t].item], now)) =>
                   /\ th'[t].pc = "idle"
                   /\ th'[t].resp # NilResp
                   /\ View(heap', th'[t].resp)
                         = View(heap, entries[th[t].item].lastResponse)
                   /\ entries'[th[t].item].lastCached
                         = entries[th[t].item].lastCached
             /\ (FabricChecks(t) /\ isCached(entries[th[t].item])) =>
                   /\ th'[t].pc = "rmap"
                   /\ th'[t].nfetch = 0
                   /\ th'[t].results = entries'[th[t].item].lastResults
      ]_vars

\* C17 witness: an entry was cached, the attach-info cache was disabled and
\* a call fetched directly, the cache was enabled again with another
\* interval, and the next call was handed the same entry, which is fresh.
C17_Witness ==
    /\ last.op = "GetAttachInfo"
    /\ last.path = "bypass"
    /\ ~attachInfoCacheDisabled
    /\ th["p1"].op = "GetAttachInfo"
    /\ th["p1"].pc = "lock"
    /\ th["p1"].item = items[th["p1"].key]
    /\ isCached(entries[th["p1"].item])
    /\ entries[th["p1"].item].lastCached < last.at
    /\ entries[th["p1"].item].refreshInterval # attachInfoRefresh
    /\ ~needsRefresh(entries[th["p1"].item], now)
    /\ fabricCacheDisabled
    /\ items[fabricKey] # NoEntry

\* In this step thread t calls the facade's Refresh, which returns at once
\* or goes on to its first key.
RefreshCalled(t) ==
    /\ th[t].pc = "idle"
    /\ th[t].nf = NilRef
    /\ \/ th'[t].pc = "rlock"
       \/ /\ th'[t].pc = "idle"
          /\ last'.op = "Refresh"
          /\ last'.t = t
          /\ last' # last \/ th' # th

\* C18: the facade's Refresh fails at once exactly if both caches are
\* disabled.  It then returns the error without a fetch or a scan and leaves
\* the entries as they are; with a cache enabled it does not return that
\* error, whatever the other cache's flag, and no other step of any call
\* returns it.
C18_RefreshFailsIffAllDisabled ==
    [][\A t \in Procs :
          /\ RefreshCalled(t) =>
                /\ (attachInfoCacheDisabled /\ fabricCacheDisabled)
                      <=> th'[t].err = AllCachesDisabled
                /\ th'[t].err = AllCachesDisabled =>
                      /\ th'[t].pc = "idle"
                      /\ th'[t].nfetch = 0
                      /\ last' = Call(t, "Refresh", "disabled")
                      /\ items' = items
                      /\ DOMAIN entries' = DOMAIN entries
                      /\ \A i \in DOMAIN entries :
                            /\ entries'[i].lastCached = entries[i].lastCached
                            /\ entries'[i].lock = entries[i].lock
                            /\ Content(heap', entries'[i])
                                  = Content(heap, entries[i])
          /\ (th'[t].err = AllCachesDisabled /\ th'[t] # th[t]) =>
                /\ RefreshCalled(t)
                /\ attachInfoCacheDisabled /\ fabricCacheDisabled]_vars

\* C18 witness: Refresh failed so while both caches, disabled, track cached
\* entries.
C18_Witness ==
    /\ last.op = "Refresh"
    /\ last.path = "disabled"
    /\ th[last.t].err = AllCachesDisabled
    /\ attachInfoCacheDisabled
    /\ fabricCacheDisabled
    /\ \A k \in {fabricKey, sysAttachInfoKey("sysA")} :
          items[k] # NoEntry /\ isCached(entries[items[k]])

\* The tracked keys of the caches that are enabled.
DueKeys ==
    {k \in AllKeys :
        /\ items[k] # NoEntry
        /\ IF k = fabricKey THEN ~fabricCacheDisabled
           ELSE ~attachInfoCacheDisabled}

\* What a reader sees of entry i of ents in h, and when it was cached.
Cached(h, ents, i) ==
    [content |-> Content(h, ents[i]), lastCached |-> ents[i].lastCached]

\* C19: with a cache enabled, the facade's Refresh takes the tracked keys of
\* the enabled caches, each once, and no other key; with none to take it
\* returns without an error.  For each key in turn it starts a fetch or a
\* scan for the tracked entry, whether the entry is stale or not, and goes
\* to the next key when that has succeeded.  No step of the call changes an
\* entry other than the one it is refreshing.
C19_RefreshForcesEnabled ==
    [][\A t \in Procs :
          /\ (/\ RefreshCalled(t)
              /\ ~(attachInfoCacheDisabled /\ fabricCacheDisabled)) =>
                IF DueKeys = {}
                THEN /\ th'[t].pc = "idle"
                     /\ th'[t].err = ""
                     /\ last' = Call(t, "Refresh", "nothing")
                     /\ \A i \in DOMAIN entries :
                           Cached(heap', entries', i) = Cached(heap, entries, i)
                ELSE /\ th'[t].pc = "rlock"
                     /\ Range(th'[t].todo) = DueKeys
                     /\ Len(th'[t].todo) = Cardinality(DueKeys)
          /\ (/\ th[t].op = "Refresh"
              /\ th[t].pc = "rlock"
              /\ th'[t].pc # "rlock") =>
                /\ th'[t].pc = IF Head(th[t].todo) = fabricKey
                               THEN "scan" ELSE "fetch"
                /\ th'[t].item = items[Head(th[t].todo)]
                /\ th'[t].nfetch = th[t].nfetch + 1
                /\ th'[t].todo = th[t].todo
          /\ (/\ th[t].op = "Refresh"
              /\ th[t].pc \in {"fetch", "filter"}
              /\ th'[t].pc # th[t].pc) =>
                \/ /\ th[t].pc = "fetch"
                   /\ th'[t].pc = "idle"
                   /\ th'[t].err # ""
                \/ /\ entries'[th[t].item].lastCached = now
                   /\ IF Tail(th[t].todo) = <<>>
                      THEN /\ th'[t].pc = "idle"
                           /\ th'[t].err = ""
                           /\ last' = Call(t, "Refresh", "forced")
                      ELSE /\ th'[t].pc = "rlock"
                           /\ th'[t].todo = Tail(th[t].todo)
          /\ (th[t].op = "Refresh" /\ th[t].pc # "idle") =>
                \A i \in DOMAIN entries :
                   Cached(heap', entries', i) # Cached(heap, entries, i) =>
                      /\ i = th[t].item
                      /\ i = items[Head(th[t].todo)]]_vars

\* C19 witness: with the fabric cache disabled, Refresh returned after it
\* had fetched anew for an attach-info entry that never goes stale, and the
\* fabric entry, cached earlier, was left alone.
C19_Witness ==
    /\ last.op = "Refresh"
    /\ last.path = "forced"
    /\ fabricCacheDisabled
    /\ ~attachInfoCacheDisabled
    /\ items[fabricKey] # NoEntry
    /\ isCached(entries[items[fabricKey]])
    /\ entries[items[fabricKey]].lastCached < last.at
    /\ items[sysAttachInfoKey("sysA")] # NoEntry
    /\ entries[items[sysAttachInfoKey("sysA")]].refreshInterval = 0
    /\ entries[items[sysAttachInfoKey("sysA")]].lastCached = last.at

\* C20: a factory call for the fabric key that fails, which it does when the
\* wait for the fabric to be ready fails, returns that error to the caller,
\* wrapped, and neither a NUMAFabric nor an interface; it leaves the key
\* untracked and no entry made.  A call that finds the fabric cache enabled
\* and the key untracked, with no factory call running, runs the factory,
\* also after a failure.
C20_FactoryFailureNotCached ==
    [][\A t \in Procs :
          /\ (/\ th[t].pc = "factory"
              /\ th[t].op \in FabricOps
              /\ th'[t].pc = "idle") =>
                /\ \E w \in {"err", "nolist"} :
                      th'[t].err
                         = FabricError(th[t].op, CacheError(waitFabricReady(w)))
                /\ th'[t].nf = NilRef
                /\ th'[t].dev = NoDev
                /\ th'[t].resp = NilResp
                /\ items'[fabricKey] = NoEntry
                /\ flight'[fabricKey] = NoThread
                /\ Len(entries') = Len(entries)
          /\ (/\ FabricBegins(t)
              /\ ~fabricCacheDisabled
              /\ items[fabricKey] = NoEntry
              /\ flight[fabricKey] = NoThread) =>
                /\ th'[t].pc = "factory"
                /\ th'[t].key = fabricKey
                /\ flight'[fabricKey] = t]_vars

\* C20 witness: the last call to return was one whose factory call failed,
\* the fabric key is untracked, and a later call is running the factory.
C20_Witness ==
    /\ last.path = "nofactory"
    /\ last.key = fabricKey
    /\ items[fabricKey] = NoEntry
    /\ th["p1"].pc = "factory"
    /\ th["p1"].key = fabricKey
    /\ flight[fabricKey] = "p1"

\* The readiness waits of thread t: a cache miss that runs createItem, and
\* bypass mode.
Waiting(t) == th[t].pc \in {"factory", "bwait"} /\ th[t].op \in FabricOps

\* The scanner is running for a call of t that missed the cache or bypasses
\* it.
Scanning(t) ==
    \/ th[t].pc = "bscan"
    \/ /\ th[t].pc = "scan"
       /\ th[t].op \in FabricOps
       /\ th[t].made

\* C21: readiness before scan.  While the scanner runs for a call that
\* missed the cache or bypasses it, waitFabricReady has come back without an
\* error in that call, for the device class the call asks for.  A wait that
\* fails ends the call with an error, with no scan begun in it.
C21_ReadyBeforeScan ==
    /\ [](\A t \in Procs :
             Scanning(t) =>
                /\ th[t].ready = th[t].devClass
                /\ th[t].devClass \in DevClasses)
    /\ [][\A t \in Procs :
             (Waiting(t) /\ th'[t].pc # th[t].pc) =>
                IF th'[t].ready = NotReady
                THEN /\ th'[t].pc = "idle"
                     /\ th'[t].err # ""
                     /\ th'[t].nf = NilRef
                     /\ th'[t].dev = NoDev
                     /\ th[t].nfetch = 0
                     /\ last'.path \in {"bypass", "nofactory"}
                ELSE /\ th'[t].pc = IF th[t].pc = "bwait"
                                    THEN "bscan" ELSE "lock"
                     /\ th'[t].ready = th[t].devClass]_vars

\* C21 witness: the scanner runs for a call that missed the cache, after
\* the wait for the Infiniband interfaces in it.
C21_Witness ==
    /\ th["p1"].pc = "scan"
    /\ th["p1"].op = "GetNUMAFabricMap"
    /\ th["p1"].made
    /\ th["p1"].devClass = "Infiniband"
    /\ th["p1"].ready = "Infiniband"

\* The errors a call returns whose readiness wait ended with the error of
\* its context.
TimeoutErrors ==
    {FabricError(op, err) : op \in FabricOps,
                            err \in {WaitError, CacheError(WaitError)}}

\* C22: the readiness wait never hangs.  A call that waits for interfaces
\* that never report ready, and whose context is cancelled or past its
\* deadline, returns in the end, with the error of the context.
C22_WaitNeverHangs ==
    \A t \in Procs :
       (Waiting(t) /\ th[t].ctx = "done")
          ~> (th[t].pc = "idle" /\ th[t].err \in TimeoutErrors)

\* C22 witness: a GetFabricDevice call has returned the error of its
\* context from a cache miss, after the polling loop had slept.
C22_Witness ==
    /\ th["p1"].pc = "idle"
    /\ th["p1"].err = CacheError(WaitError)
    /\ last.op = "GetFabricDevice"
    /\ last.path = "nofactory"
    /\ now > 1

\* C23: the map that getNUMAFabric hands to a GetNUMAFabricMap or
\* GetFabricDevice call holds only interfaces of the device class that call
\* asks for, with the fabric cache enabled or disabled, whatever earlier
\* calls asked for.
C23_MapOfRequestedClass ==
    \A t \in Procs :
       th[t].pc \in {"rmap", "device"} =>
          \A fi \in AllIfaces(heap[th[t].results].v.numaMap) :
             fi.NetDevClass = th[t].devClass

\* C24: GetFabricDevice for a named interface.  When getNUMAFabric has
\* handed it a map, the call returns an interface of that map that has the
\* name asked for, and no error; if the map has no interface of that name it
\* returns no interface and the not-found error.
C24_NamedDevice ==
    [][\A t \in Procs :
          (/\ th[t].pc = "device"
           /\ th[t].iface # ""
           /\ th'[t].pc # "device") =>
             /\ th'[t].pc = "idle"
             /\ IF \E fi \in AllIfaces(heap[th[t].results].v.numaMap) :
                      fi.Name = th[t].iface
                THEN /\ th'[t].err = ""
                     /\ th'[t].dev \in AllIfaces(heap[th[t].results].v.numaMap)
                     /\ th'[t].dev.Name = th[t].iface
                ELSE /\ th'[t].err = DeviceNotFound
                     /\ th'[t].dev = NoDev
                     /\ last' = Call(t, "GetFabricDevice", "notfound")]_vars

\* C24 witness: a GetFabricDevice call for eth0 has come back with the
\* not-found error, from a map that holds interfaces under other names; and
\* the fabric entry holds a map with Infiniband interfaces only.
C24_Witness ==
    /\ last.op = "GetFabricDevice"
    /\ last.path = "notfound"
    /\ th["p1"].pc = "idle"
    /\ th["p1"].err = DeviceNotFound
    /\ th["p1"].dev = NoDev
    /\ items[fabricKey] # NoEntry
    /\ entries[items[fabricKey]].devClass = "Infiniband"
    /\ isCached(entries[items[fabricKey]])

\* C25: a provider that was added by AddProvider is among the providers
\* that every scan of the hardware begun afterwards is called with, in
\* bypass mode, for a new entry and in a forced refresh.
C25_AddedProviderScanned ==
    [][\A t \in Procs :
          (/\ th[t].pc \notin {"scan", "bscan"}
           /\ th'[t].pc \in {"scan", "bscan"}
           /\ th'[t].pc = "scan" => entries'[th'[t].item].fetch = NilRef) =>
             providers \subseteq ScanProviders(t)']_vars

\* The keys that track an entry.
Tracked == {k \in AllKeys : items[k] # NoEntry}

\* C26: the set of tracked keys never shrinks.  No step of a GetAttachInfo,
\* GetFabricDevice, GetNUMAFabricMap or Refresh call, no toggle and no
\* EnableStaticFabricCache leaves a key untracked that tracked an entry.
C26_KeysNeverShrink ==
    [][Tracked \subseteq Tracked']_vars

\* C26 witness: with both caches disabled Refresh was refused, and the keys
\* of the fabric and of a system still track their entries, the fabric key
\* that of a second, static entry.
C26_Witness ==
    /\ attachInfoCacheDisabled
    /\ fabricCacheDisabled
    /\ last.op = "Refresh"
    /\ last.path = "disabled"
    /\ Tracked = {fabricKey, sysAttachInfoKey("sysA")}
    /\ IsStatic(entries, items[fabricKey])
    /\ \E i \in DOMAIN entries :
          i # items[fabricKey] /\ entries[i].kind = "fabric"

\* The key that the call of thread a is at work on, "" if there is none.
WorksOn(a) ==
    IF th[a].pc = "idle" THEN ""
    ELSE IF th[a].pc = "rlock" THEN Head(th[a].todo)
    ELSE th[a].key

\* The call of thread t cannot take its next step: it waits for a factory
\* call to come back, for the lock of an entry, or for a lock of a fabric
\* map.
Blocked(t) ==
    CASE th[t].pc = "wait" -> TRUE
      [] th[t].pc = "lock" -> ~Unlocked(th[t].item)
      [] th[t].pc = "rlock" ->
            /\ items[Head(th[t].todo)] # NoEntry
            /\ ~Unlocked(items[Head(th[t].todo)])
      [] th[t].pc = "wlock" -> ~CanLockMap(heap, th[t].results)
      [] th[t].pc \in {"rmap", "device"} -> ~CanRLockMap(heap, th[t].results)
      [] OTHER -> FALSE

\* C27: operations on distinct keys never block each other.  A call that
\* cannot take its next step is held up by another thread that is at work on
\* the same key, or that holds the fabric map the call is to filter.
C27_CrossKeyNonBlocking ==
    \A b \in Procs :
       Blocked(b) =>
          \E a \in Procs \ {b} :
             \/ WorksOn(a) = WorksOn(b)
             \/ th[a].nf # NilRef /\ WorksOn(b) = fabricKey

\* C27 witness: the first fetch for the entry of one system, made first, is
\* still under way in one thread, while the other thread has had the entry
\* of another key made and refreshed, and has returned.
C27_Witness ==
    /\ th["p1"].pc = "fetch"
    /\ th["p1"].item = 1
    /\ entries[1].lock = "p1"
    /\ ~isCached(entries[1])
    /\ last.t = "p2"
    /\ last.path = "refreshed"
    /\ last.key # th["p1"].key
    /\ items[last.key] = 2
    /\ isCached(entries[2])

\* C28: stale but available.  A GetAttachInfo call that comes to an entry
\* that holds a fetched record returns a record and no error, whether the
\* entry is fresh, is refreshed, or its refresh fails: the record that the
\* entry holds when the call returns, which after a failed refresh is the one
\* it held before.
C28_StaleButAvailable ==
    [][\A t \in Procs :
          (/\ th[t].op = "GetAttachInfo"
           /\ th[t].pc \in {"lock", "fetch"}
           /\ th'[t].pc = "idle"
           /\ isCached(entries[th[t].item])) =>
             /\ th'[t].err = ""
             /\ th'[t].resp # NilResp
             /\ View(heap', th'[t].resp)
                   = View(heap', entries'[th[t].item].lastResponse)
             /\ (isCached(entries'[th[t].item])
                   /\ entries'[th[t].item].lastCached
                         = entries[th[t].item].lastCached) =>
                   View(heap', th'[t].resp)
                      = View(heap, entries[th[t].item].lastResponse)]_vars

\* The key that requests for the default system are cached under.
DefaultKey == sysAttachInfoKey(DefaultSystemName)

\* C29: with the attach-info cache enabled, a request that names no system
\* and a request that names the default system go to the same key and so to
\* the same entry, that of the default system, made once; and once that entry
\* holds a record, a call of either kind returns that record with nothing
\* fetched.
C29_EmptyIsDefaultSystem ==
    /\ [](\A t \in Procs :
            (/\ th[t].op = "GetAttachInfo"
             /\ th[t].pc \in {"wait", "factory", "lock", "fetch"}
             /\ th[t].sys \in {"", DefaultSystemName}) =>
               /\ th[t].key = DefaultKey
               /\ th[t].pc \in {"lock", "fetch"} =>
                     /\ th[t].item = items[DefaultKey]
                     /\ entries[th[t].item].system = DefaultSystemName)
    /\ [](factoryCalls[DefaultKey] > 0 /\ flight[DefaultKey] = NoThread =>
            /\ items[DefaultKey] # NoEntry
            /\ Cardinality(created[DefaultKey]) = 1)
    /\ [][\A t \in Procs :
            (/\ th[t].op = "GetAttachInfo"
             /\ th[t].sys \in {"", DefaultSystemName}
             /\ th[t].pc = "lock"
             /\ th'[t].pc # "lock"
             /\ isCached(entries[th[t].item])) =>
               /\ th'[t].pc = "idle"
               /\ th'[t].err = ""
               /\ View(heap', th'[t].resp)
                     = View(heap, entries[items[DefaultKey]].lastResponse)
               /\ Content(heap', entries'[items[DefaultKey]])
                     = Content(heap, entries[items[DefaultKey]])]_vars

\* C29 witness: a call that named no system had the entry made and its
\* record fetched, and a call that names the default system has come to that
\* entry, which it did not make.
C29_Witness ==
    /\ last.op = "GetAttachInfo"
    /\ last.t = "p1"
    /\ last.sys = ""
    /\ last.path = "refreshed"
    /\ th["p2"].op = "GetAttachInfo"
    /\ th["p2"].sys = DefaultSystemName
    /\ th["p2"].pc = "lock"
    /\ ~th["p2"].made
    /\ th["p2"].item = items[DefaultKey]
    /\ isCached(entries[th["p2"].item])
    /\ factoryCalls[DefaultKey] = 1

\* In this step a method that thread t called on a nil receiver returns.
NilReturns(t) ==
    /\ th[t].pc = "idle"
    /\ th'[t].pc = "idle"
    /\ last'.path = "nil"
    /\ last'.t = t
    /\ (last' # last \/ th'[t] # th[t])

\* C30: a method called on a nil cache or a nil entry returns at once.
\* GetAttachInfo, GetFabricDevice, GetNUMAFabricMap, Refresh and the refresh
\* methods of the entries return an error that names the nil receiver and no
\* result; the toggles and AddProvider return without an error; the
\* Is...Enabled queries answer false.  No fetch and no scan is begun, and
\* the flags, the interval, the providers, the tracked keys and the entries
\* of the cache that was constructed are what they were.
C30_NilReceiverChecked ==
    [][\A t \in Procs :
          NilReturns(t) =>
             /\ last'.op \in FacadeCalls => th'[t].err = "InfoCache is nil"
             /\ last'.op \in AttachEntryCalls =>
                   th'[t].err = "cachedAttachInfo is nil"
             /\ last'.op \in FabricEntryCalls =>
                   th'[t].err = "cachedFabricInfo is nil"
             /\ last'.op \in FacadeSetters \cup FacadeQueries =>
                   th'[t].err = ""
             /\ ~th'[t].flag
             /\ th'[t].resp = NilResp
             /\ th'[t].nf = NilRef
             /\ th'[t].dev = NoDev
             /\ th'[t].nfetch = 0
             /\ attachInfoCacheDisabled' = attachInfoCacheDisabled
             /\ fabricCacheDisabled' = fabricCacheDisabled
             /\ attachInfoRefresh' = attachInfoRefresh
             /\ providers' = providers
             /\ items' = items
             /\ factoryCalls' = factoryCalls
             /\ Len(entries') = Len(entries)
             /\ \A i \in 1..Len(entries) :
                   Cached(heap', entries', i) = Cached(heap, entries, i)]_vars

\* C30 witness: GetAttachInfo was called on a nil cache and returned the
\* error, while the cache that was constructed holds a record.
C30_Witness ==
    /\ last.op = "GetAttachInfo"
    /\ last.path = "nil"
    /\ th[last.t].pc = "idle"
    /\ th[last.t].err = "InfoCache is nil"
    /\ th[last.t].resp = NilResp
    /\ items[sysAttachInfoKey("sysA")] # NoEntry
    /\ isCached(entries[items[sysAttachInfoKey("sysA")]])

\* In this step the direct fetch of thread t's GetAttachInfo call, made with
\* the attach-info cache disabled, comes back and the call returns.
RemoteReturns(t) ==
    /\ th[t].op = "GetAttachInfo"
    /\ th[t].pc = "remote"
    /\ th'[t].pc = "idle"

\* C31: with the attach-info cache disabled GetAttachInfo returns either a
\* record that names its primary provider and no error, or no record and an
\* error: the error that says the response contained no provider, or the
\* fetcher's error, wrapped.  It never returns a record without a provider,
\* and never a record beside an error.
C31_BypassValidates ==
    [][\A t \in Procs :
          RemoteReturns(t) =>
             \/ /\ th'[t].err = ""
                /\ th'[t].resp # NilResp
                /\ th'[t].resp.Provider # ""
             \/ /\ th'[t].err = "GetAttachInfo response contained no provider"
                /\ th'[t].resp = NilResp
             \/ /\ th'[t].err = Wrap(RpcError, "GetAttachInfo request")
                /\ th'[t].resp = NilResp]_vars

\* C31 witness: with the cache disabled, a call returned the error of a
\* response without a provider and no record.
C31_Witness ==
    /\ attachInfoCacheDisabled
    /\ last.op = "GetAttachInfo"
    /\ last.path = "bypass"
    /\ th[last.t].pc = "idle"
    /\ th[last.t].err = "GetAttachInfo response contained no provider"
    /\ th[last.t].resp = NilResp

\* Thread t is in a call that found its cache disabled.
Bypassing(t) ==
    \/ th[t].pc \in {"remote", "bwait", "bscan"}
    \/ th[t].pc \in {"rmap", "device"} /\ th[t].path = "bypass"

\* C32: a call that finds its cache disabled goes to its own fetch
\* (GetAttachInfo), or to its own readiness wait and then its own scan
\* (GetFabricDevice, GetNUMAFabricMap), and no step of it makes an entry,
\* tracks a key, takes an entry's lock or changes the content or lastCached
\* of an entry.
C32_BypassTouchesNoEntry ==
    [][\A t \in Procs :
          /\ (Begins(t) /\ attachInfoCacheDisabled) =>
                /\ th'[t].pc = "remote"
                /\ th'[t].nfetch = 1
          /\ (FabricBegins(t) /\ fabricCacheDisabled) => th'[t].pc = "bwait"
          /\ th'[t].pc = "bscan" /\ th[t].pc # "bscan" =>
                /\ th[t].pc = "bwait"
                /\ th'[t].ready = th[t].devClass
          /\ (th'[t].path = "bypass" /\ th[t].path # "bypass") =>
                th[t].pc = "bscan"
          /\ ((Bypassing(t) \/ Bypassing(t)') /\ th'[t] # th[t]) =>
                /\ items' = items
                /\ created' = created
                /\ factoryCalls' = factoryCalls
                /\ flight' = flight
                /\ Len(entries') = Len(entries)
                /\ \A i \in 1..Len(entries) :
                      /\ Cached(heap', entries', i) = Cached(heap, entries, i)
                      /\ entries'[i].lock = entries[i].lock]_vars

\* C32 witness: the entries of both keys are tracked, that of the system
\* cached, both caches are disabled, and a GetAttachInfo call fetched its
\* own record after the entry was cached.
C32_Witness ==
    /\ attachInfoCacheDisabled
    /\ fabricCacheDisabled
    /\ items[fabricKey] # NoEntry
    /\ items[sysAttachInfoKey("sysA")] # NoEntry
    /\ isCached(entries[items[sysAttachInfoKey("sysA")]])
    /\ last.op = "GetAttachInfo"
    /\ last.path = "bypass"
    /\ entries[items[sysAttachInfoKey("sysA")]].lastCached < last.at
    /\ th[last.t].pc = "idle"
    /\ th[last.t].err = ""
    /\ th[last.t].resp # NilResp

\* C33: no entry is found under a key of the other kind.  The key of the
\* attach info of a system is never the fabric key; an entry that is tracked
\* is stored under the key its own Key() returns, an attach-info entry under
\* a key of the attach info and a fabric entry under the fabric key; and the
\* entry a call was handed by GetOrCreate is of the kind the call asserts.
C33_EntryKindMatchesKey ==
    /\ \A sys \in Systems : sysAttachInfoKey(sys) # fabricKey
    /\ \A k \in AllKeys :
          items[k] # NoEntry =>
             /\ Key(entries[items[k]]) = k
             /\ entries[items[k]].kind
                   = IF k = fabricKey THEN "fabric" ELSE "attach"
    /\ \A t \in Procs :
          th[t].pc \in {"lock", "fetch", "scan"} /\ th[t].item # NoEntry =>
             entries[th[t].item].kind
                = IF th[t].op = "GetAttachInfo" THEN "attach"
                  ELSE IF th[t].op \in FabricOps THEN "fabric"
                  ELSE entries[th[t].item].kind

\* C33 witness: the entry of the default system, made for a request that
\* named no system, and the fabric entry are both tracked and cached.
C33_Witness ==
    /\ items[DefaultKey] # NoEntry
    /\ items[fabricKey] # NoEntry
    /\ isCached(entries[items[DefaultKey]])
    /\ isCached(entries[items[fabricKey]])
    /\ last.sys = ""
    /\ last.op = "GetAttachInfo"
    /\ last.key = DefaultKey

\* C34: the systems do not mix.  A fetch that is under way for an entry asks
\* for the entry's own system, with AllRanks set; the record an entry holds
\* was fetched for the entry's system; and the record GetAttachInfo returns
\* from the cache is one fetched for the system of the call, the default
\* system if the call named none.
C34_PerSystemIsolation ==
    /\ [](\A t \in Procs :
            th[t].pc = "fetch" =>
               th[t].req = [System |-> entries[th[t].item].system,
                            AllRanks |-> TRUE])
    /\ [](\A i \in 1..Len(entries) :
            entries[i].lastResponse # NilResp =>
               entries[i].lastResponse.Sys = entries[i].system)
    /\ [][\A t \in Procs :
            ServedFromCache(t) =>
               th'[t].resp.Sys = IF th[t].sys = "" THEN DefaultSystemName
                                 ELSE th[t].sys]_vars

\* C34 witness: the entries of the default system and of sysA both hold a
\* record, each that of its own system, and a call for sysA has just been
\* served the record of sysA.
C34_Witness ==
    /\ items[DefaultKey] # NoEntry
    /\ items[sysAttachInfoKey("sysA")] # NoEntry
    /\ entries[items[DefaultKey]].lastResponse # NilResp
    /\ entries[items[sysAttachInfoKey("sysA")]].lastResponse # NilResp
    /\ entries[items[DefaultKey]].lastResponse.Sys = DefaultSystemName
    /\ entries[items[sysAttachInfoKey("sysA")]].lastResponse.Sys = "sysA"
    /\ last.op = "GetAttachInfo"
    /\ last.sys = "sysA"
    /\ last.path \in {"hit", "refreshed"}
    /\ th[last.t].resp # NilResp
    /\ th[last.t].resp.Sys = "sysA"

\* The NUMAFabric objects of the heap.
Fabrics == {a \in DOMAIN heap : heap[a].k = "fab"}

\* C35: no call returns with the lock of an entry held.  A thread that is
\* not in a call, or that has left getNUMAFabric and goes for the map,
\* holds the lock of no entry and the write lock of no map; the read lock of
\* a map is held only by a thread that GetNUMAFabricMap returned that map to
\* and that has not run the release action yet.  The record GetAttachInfo
\* returns is the copy of what the entry holds at the release of its lock.
C35_NoLockAfterReturn ==
    /\ [](\A t \in Procs :
            /\ th[t].pc \in {"idle", "rmap", "device"} =>
                  /\ \A i \in 1..Len(entries) : entries[i].lock # t
                  /\ \A a \in Fabrics : heap[a].v.writer # t
            /\ \A a \in Fabrics :
                  t \in heap[a].v.readers =>
                     th[t].pc = "idle" /\ th[t].nf = a)
    /\ [][\A t \in Procs :
            ServedFromCache(t) =>
               /\ entries'[th[t].item].lock = NoThread
               /\ View(heap', th'[t].resp)
                     = View(heap', entries'[th[t].item].lastResponse)]_vars

\* C35 witness: a GetAttachInfo call whose refresh failed has returned the
\* error, and the lock of its entry, which was cached before, is free.
C35_Witness ==
    /\ last.op = "GetAttachInfo"
    /\ last.path = "failed"
    /\ th[last.t].pc = "idle"
    /\ th[last.t].err # ""
    /\ items[last.key] # NoEntry
    /\ isCached(entries[items[last.key]])
    /\ entries[items[last.key]].lock = NoThread

\* C36: the map that filterDevClass is to filter, or is filtering, is seen
\* by nobody but the refresh: it is not the result that an entry holds, and
\* no other thread has been handed it.
C36_FilterUnseenMap ==
    \A t \in Procs :
       th[t].pc \in {"wlock", "filter"} =>
          /\ \A i \in 1..Len(entries) :
                entries[i].lastResults # th[t].results
          /\ \A u \in Procs \ {t} :
                /\ th[u].nf # th[t].results
                /\ th[u].results # th[t].results

\* C37: an entry keeps the interval it was made with.  No step changes the
\* refreshInterval of an entry; an attach-info entry is made with the interval
\* the facade holds at that moment; and whether RefreshIfNeeded refreshes a
\* cached entry is decided by the entry's interval, whatever interval the
\* cache was enabled with since.
C37_EntryKeepsInterval ==
    [][/\ Len(entries') >= Len(entries)
       /\ \A i \in 1..Len(entries) :
             entries'[i].refreshInterval = entries[i].refreshInterval
       /\ \A i \in (Len(entries) + 1)..Len(entries') :
             entries'[i].kind = "attach" =>
                entries'[i].refreshInterval = attachInfoRefresh
       /\ \A t \in Procs :
             Checks(t) /\ isCached(entries[th[t].item]) =>
                (th'[t].pc = "fetch"
                   <=> /\ entries[th[t].item].refreshInterval # 0
                       /\ entries[th[t].item].lastCached
                             + entries[th[t].item].refreshInterval < now)]_vars

\* C37 witness: an entry made with interval 1 has gone stale, the cache was
\* enabled with interval 0 meanwhile, and the call that came to the entry is
\* refreshing it.
C37_Witness ==
    /\ ~attachInfoCacheDisabled
    /\ attachInfoRefresh = 0
    /\ th["p1"].op = "GetAttachInfo"
    /\ th["p1"].pc = "fetch"
    /\ isCached(entries[th["p1"].item])
    /\ entries[th["p1"].item].refreshInterval = 1

\* In this step waitFabricReady of thread t, which has listed the
\* interfaces, goes on: it returns, or a round of the wait passes.
AfterList(t) ==
    /\ th[t].plan.listed
    /\ th[t].pc \in {"factory", "bwait"}
    /\ (th'[t].pc # th[t].pc \/ now' # now)

\* C38: what waitFabricReady does before it waits.  The interfaces it goes
\* to wait for are those listed whose class is the class asked for, in the
\* order listed.  If listing the interfaces or reading the class of one of
\* them fails, the call returns that error, and neither a wait nor a scan
\* takes place.  If no interface listed has the class asked for, the call
\* goes on to its scan at once, whether interfaces are ready or not and
\* whether its context is done or not.
C38_ReadinessPreconditions ==
    /\ [](\A t \in Procs :
            th[t].plan.listed =>
               /\ th[t].plan.w = "noclass" <=>
                     \E i \in DOMAIN th[t].plan.ifaces :
                        GetNetDevClass(th[t].plan.ifaces[i]).err # ""
               /\ th[t].plan.w = "ok" =>
                     th[t].plan.need
                        = SelectSeq(th[t].plan.ifaces,
                             LAMBDA n : GetNetDevClass(n).class
                                           = th[t].devClass))
    /\ [][\A t \in Procs :
            AfterList(t) =>
               /\ th[t].plan.w \in {"nolist", "noclass"} =>
                     /\ th'[t].pc = "idle"
                     /\ now' = now
                     /\ th'[t].err
                           = FabricError(th[t].op,
                                IF th[t].pc = "factory"
                                THEN CacheError(waitFabricReady(th[t].plan.w))
                                ELSE waitFabricReady(th[t].plan.w))
                     /\ th'[t].err
                           # FabricError(th[t].op,
                                IF th[t].pc = "factory"
                                THEN CacheError(WaitError) ELSE WaitError)
                     /\ items' = items
               /\ (th[t].plan.w = "ok" /\ th[t].plan.need = <<>>) =>
                     /\ th'[t].pc = IF th[t].pc = "factory" THEN "lock"
                                    ELSE "bscan"
                     /\ th'[t].ready = th[t].devClass
                     /\ now' = now]_vars

\* C38 witness: the host lists an interface of another class only, none is
\* to be waited for, and the call, whose context is done, has gone on to its
\* scan.
C38_Witness ==
    /\ th["p1"].pc = "bscan"
    /\ th["p1"].ctx = "done"
    /\ th["p1"].devClass = "Ether"
    /\ th["p1"].plan.listed
    /\ th["p1"].plan.ifaces = <<"ib0">>
    /\ th["p1"].plan.need = <<>>
    /\ th["p1"].ready = "Ether"

====
